---------------------------- MODULE Spec2Model ----------------------------
(***************************************************************************)
(* Exchange normalization adapters (KalshiClient, PolymarketClient) and    *)
(* their RateLimiter: pagination, request execution with retries, and the  *)
(* partial-failure policy.                                                 *)
(*                                                                         *)
(* One call of one public operation is modelled at a time.  Init picks the *)
(* operation and its arguments; the upstream exchange is the environment:  *)
(* every request is answered by an outcome and a payload chosen with \E.   *)
(*                                                                         *)
(* Delays are exact multiples of 1/10240 s, so that the limiter's          *)
(* doubling and halving of 0.1 s .. 60.0 s stay exact, as they are in      *)
(* binary floating point.                                                  *)
(***************************************************************************)
EXTENDS Integers, Sequences, FiniteSets, TLC

\* ------------------------------------------------------------------ bounds
\* Longest list of events/records the upstream puts in an arbitrary page.
MaxEvents == 2
\* Most page requests (Kalshi: get_markets calls, Polymarket: executor
\* calls) explored in one fetch_all_markets call.
MaxPageReqs == 3
\* Largest `retries` argument explored for a direct executor call.
MaxRetries == 3
\* Most handle_rate_limit_error() calls in a row explored on one limiter.
MaxBackoffs == 11
\* Most rate-limit answers explored when threads and time are modelled.
MaxRateLimits == 2
\* Most threads sharing one limiter.
MaxThreads == 2
\* Most raw entries in one order book response.
MaxBook == 3
\* Most keys present in the raw payload(s) of one market.
MaxFields == 2
\* Most upsert_market calls explored on one table.
MaxSyncs == 2
\* Most DatabaseMarkets in one upsert_markets call.
MaxBatch == 2
\* Most _make_request calls explored on one DomeAPIClient.
MaxDomeCalls == 2
\* Most RateLimiter method calls explored across threads.
MaxCalls == 3

\* ------------------------------------------------------- program constants
\* Python None for an optional integer argument.
NONE == -1
\* RateLimiter defaults: min_delay 0.1 s, max_delay 60.0 s, backoff 2.0.
MinDelay == 1024
MaxDelay == 614400
BackoffFactor == 2
\* `retries: int = 3` of the Polymarket request executors.
DefaultRetries == 3
\* `page_size: int = 100` of PolymarketClient.fetch_all_markets.
DefaultPageSize == 100
\* The price 1.0 of a binary market, in price steps of 0.25.
PriceUnit == 4
\* Page size and limit of the limit-based termination scenario.
ScenarioPage == 10
ScenarioLimit == 15

Min(a, b) == IF a <= b THEN a ELSE b
Max(a, b) == IF a >= b THEN a ELSE b

\* Python truthiness of an Optional[int]: None and 0 are false.
Truthy(x) == x # NONE /\ x # 0

\* --------------------------------------------------------------- payloads
\* One raw event/record of a listing page:
\*   "self"   a record that normalizes to one Market (Polymarket: an event
\*            without a 'markets' list, treated as the market itself)
\*   "multi0" a Polymarket event whose 'markets' list is empty
\*   "multi2" a Polymarket event carrying two markets
\*   "bad"    a record whose shape makes normalization raise
\*   "again"  the record the listing started with, served once more (it
\*            carries the market id of the first record of the call)
EventKinds == {"self", "multi0", "multi2", "bad"}
RecordKinds == {"self", "bad"}

NMarkets(e) == IF e = "multi2" THEN 2 ELSE IF e = "multi0" THEN 0 ELSE 1
IsMulti(e) == e \in {"multi0", "multi2"}

SeqsUpTo(S, n) == UNION {[1..k -> S] : k \in 0..n}

\* A page of ten well-formed records.
TenPage == [i \in 1..ScenarioPage |-> "self"]

\* A page repeating the first record of the listing (the upstream's
\* listing shifted between two page requests).
AgainPage == <<"again">>

PolyPages == SeqsUpTo(EventKinds, MaxEvents) \cup {TenPage, AgainPage}
KalshiPages == SeqsUpTo(RecordKinds, MaxEvents) \cup {TenPage, AgainPage}

\* Payload of a single-market response (details, order book).
SinglePayloads == {<<"self">>, <<"bad">>}

\* The raw market records of a Polymarket page, in response order: the
\* markets of each event, or the event itself.
MarketsOf(e) ==
    IF e = "multi2" THEN <<"self", "self">>
    ELSE IF e = "multi0" THEN <<>>
    ELSE <<e>>

RECURSIVE Flatten(_)
Flatten(events) ==
    IF events = <<>> THEN <<>>
    ELSE MarketsOf(Head(events)) \o Flatten(Tail(events))

\* market_id the normalizer extracts from a raw record.  The upstream gives
\* a record served for the first time the id of its place in the listing
\* (pos); a repeated record carries the first record's id; a record of
\* unusable shape has none (0).
MarketId(kind, pos) ==
    IF kind = "bad" THEN 0 ELSE IF kind = "again" THEN 1 ELSE pos

\* The market ids of the raw records of one page, `from` records having
\* been served before it.
PageIds(records, from) ==
    [i \in 1..Len(records) |-> MarketId(records[i], from + i)]

\* -------------------------------------------------------------- arguments
LimitArgs == {NONE, 0, 1, 2, ScenarioLimit}
MaxPagesArgs == {NONE, 0, 1, 2}
PageSizeArgs == {NONE, 2}

FetchAllOps == {"k_fetch_all", "p_fetch_all"}
SingleOps == {"k_orderbook", "k_details", "p_orderbook", "p_details"}
Ops == FetchAllOps \cup SingleOps \cup {"p_request"}

HttpErrorStatuses == {404, 500}

VARIABLES
    op,              \* the public operation being called
    limit,           \* fetch_all_markets(limit=...)
    max_pages,       \* fetch_all_markets(max_pages=...)
    page_size,       \* fetch_all_markets(page_size=...)
    retries,         \* executor argument `retries`
    pc,              \* position of the call
    all_markets,     \* fetch_all_markets: accumulated records (ids)
    page_num,        \* fetch_all_markets: pages accumulated
    total_fetched,   \* fetch_all_markets: running count
    current_offset,  \* Polymarket offset
    current_cursor,  \* Kalshi cursor (NONE or a token)
    page_limit,      \* size requested for the current page
    current_delay,   \* RateLimiter.current_delay
    attempt,         \* executor loop index
    execResult,      \* executor: "none" | "body" | "error" | "raw"
    errStatus,       \* status carried by the raised API error (0: none)
    body,            \* response body handed back by the executor
    result,          \* the call: "none" | "returned" | "typed" | "raw"
    returned,        \* list returned by fetch_all_markets
    sends,           \* HTTP requests sent (executor call / Kalshi call)
    reqs,            \* page requests issued by fetch_all_markets
    hrlCalls,        \* handle_rate_limit_error() calls
    n429,            \* 429 answers received
    streak429,       \* Kalshi paginator: 429 answers in a row on one page
    last,            \* outcome of the latest request
    contrib,         \* pages whose records were appended to all_markets
    onlyTenPages,    \* every answer so far was a page of ScenarioPage
                     \* records (Kalshi: with a next cursor)
    served,          \* market ids of all raw records received, in order
    next_cursor,     \* Kalshi: cursor carried by the latest page response
    cbCalls,         \* progress_callback invocations
    cbArgs,          \* arguments of the latest progress_callback invocation
    \* --- the RateLimiter shared by threads (specification SpecLimiter)
    nthreads,        \* threads using the limiter
    lock,            \* RateLimiter.lock: 0 free, else the holding thread
    tpc,             \* position of each thread
    time_since_last, \* clock - RateLimiter.last_request_time
    sinceReturn,     \* time since the latest wait_if_needed() returned
    sinceSend,       \* time since the latest HTTP send
    fresh,           \* reset_delay() was never called on this limiter
    backoffs,        \* handle_rate_limit_error() calls since the latest
                     \* reset_delay() (or construction)
    successes,       \* reset_delay() calls since the latest backoff
    \* --- order book normalization (specification SpecBook)
    orderbook_data,  \* raw order book entries, in response order
    bids,            \* OrderBook.bids
    asks,            \* OrderBook.asks
    \* --- market normalization (specification SpecNormalize)
    market_data,     \* raw market payload (a mapping)
    event_data,      \* Polymarket: the event carrying the market (or empty)
    local_tz,        \* UTC offset, in hours, of the process's local time
    market,          \* the Market returned by _normalize_market
    \* --- persistence (specification SpecStore)
    exchange_markets, \* Markets handed to sync_markets_from_exchange
    db_markets,      \* DatabaseMarkets handed to the latest upsert
    sent,            \* records of the latest upsert request
    store,           \* rows of the markets table
    \* --- Dome API client (specification SpecDome)
    request,         \* the latest HTTP request of DomeAPIClient
    error,           \* message of the DomeAPIError raised by the latest call
    \* --- the RateLimiter's configuration and its calls (SpecShared)
    min_delay,       \* RateLimiter.min_delay
    max_delay,       \* RateLimiter.max_delay
    backoff_factor,  \* RateLimiter.backoff_factor
    read_delay,      \* current_delay as each thread read it inside a call
    calls            \* handle_rate_limit_error/reset_delay calls completed

vars == <<op, limit, max_pages, page_size, retries, pc, all_markets, page_num,
          total_fetched, current_offset, current_cursor, page_limit,
          current_delay, attempt, execResult, errStatus, body, result,
          returned, sends, reqs, hrlCalls, n429, streak429, last, contrib,
          onlyTenPages, served, next_cursor, cbCalls, cbArgs,
          nthreads, lock, tpc, time_since_last, sinceReturn, sinceSend,
          fresh, backoffs, successes, orderbook_data, bids, asks,
          market_data, event_data, local_tz, market,
          exchange_markets, db_markets, sent, store, request, error,
          min_delay, max_delay, backoff_factor, read_delay, calls>>

argVars == <<op, limit, max_pages, page_size, retries>>
pageVars == <<all_markets, page_num, total_fetched, current_offset,
              current_cursor, page_limit, contrib, reqs, served, next_cursor,
              cbCalls, cbArgs>>
\* What only a received page changes.
recvVars == <<served, next_cursor, cbCalls, cbArgs>>
execVars == <<attempt, execResult, errStatus, body>>
limVars == <<nthreads, lock, tpc, time_since_last, sinceReturn, sinceSend,
             fresh, backoffs, successes>>
bookVars == <<orderbook_data, bids, asks>>
normVars == <<market_data, event_data, local_tz, market>>
storeVars == <<exchange_markets, db_markets, sent, store>>
domeVars == <<request, error>>
sharedVars == <<min_delay, max_delay, backoff_factor, read_delay, calls>>
\* What the calls of an adapter's public operations leave alone.
sideVars == <<bookVars, normVars, storeVars, domeVars, sharedVars>>
\* State of one adapter call, apart from the limiter's current_delay.
callVars == <<op, limit, max_pages, page_size, retries, pc, all_markets,
              page_num, total_fetched, current_offset, current_cursor,
              page_limit, attempt, execResult, errStatus, body, result,
              returned, sends, reqs, hrlCalls, n429, streak429, last,
              contrib, onlyTenPages, served, next_cursor, cbCalls, cbArgs>>

\* The same, apart from the position of the call.
callRest == <<op, limit, max_pages, page_size, retries, all_markets,
              page_num, total_fetched, current_offset, current_cursor,
              page_limit, attempt, execResult, errStatus, body, result,
              returned, sends, reqs, hrlCalls, n429, streak429, last,
              contrib, onlyTenPages, served, next_cursor, cbCalls, cbArgs>>

\* ------------------------------------------------------------ RateLimiter
\* Mutant: the backoff is not capped at max_delay.
HandleRateLimitUncapped(d) == d * BackoffFactor

\* handle_rate_limit_error(): current_delay = min(current_delay*factor, max)
HandleRateLimitError(d) == Min(d * backoff_factor, max_delay)

\* Mutant: a success puts the delay back on the floor at once.
ResetDelayInstant(d) == MinDelay

\* reset_delay(): if above the floor, current_delay = max(current_delay/factor, min)
ResetDelay(d) ==
    IF d > min_delay THEN Max(d \div backoff_factor, min_delay) ELSE d

\* The limiter outlives a call: a call may start at the floor, or at the
\* ceiling left by the rate-limit answers to earlier calls.
InitDelays == {MinDelay, MaxDelay}

\* ------------------------------------------------------------------- Init
\* No thread is inside the limiter, no order book is being normalized.
LimiterIdle ==
    /\ nthreads = 1
    /\ lock = 0
    /\ tpc = <<>>
    /\ time_since_last = MaxDelay
    /\ sinceReturn = MaxDelay
    /\ sinceSend = MaxDelay
    /\ fresh = TRUE
    /\ backoffs = 0
    /\ successes = 0

BookIdle ==
    /\ orderbook_data = <<>>
    /\ bids = <<>>
    /\ asks = <<>>

\* No market is being normalized.
NormIdle ==
    /\ market_data = <<>>
    /\ event_data = <<>>
    /\ local_tz = 0
    /\ market = <<>>

\* Nothing is being synced to an empty markets table.
StoreIdle ==
    /\ exchange_markets = <<>>
    /\ db_markets = <<>>
    /\ sent = <<>>
    /\ store = <<>>

\* The Dome client has sent nothing.
DomeIdle ==
    /\ request = <<>>
    /\ error = <<>>

\* RateLimiter(min_delay=0.1): the limiter the adapters build by default.
DefaultLimiter ==
    /\ min_delay = MinDelay
    /\ max_delay = MaxDelay
    /\ backoff_factor = BackoffFactor
    /\ read_delay = <<>>
    /\ calls = <<>>

Init ==
    /\ LimiterIdle
    /\ BookIdle
    /\ NormIdle
    /\ StoreIdle
    /\ DomeIdle
    /\ DefaultLimiter
    /\ op \in Ops
    /\ limit \in (IF op \in FetchAllOps THEN LimitArgs ELSE {NONE})
    /\ max_pages \in (IF op \in FetchAllOps THEN MaxPagesArgs ELSE {NONE})
    /\ page_size \in (IF op = "k_fetch_all" THEN PageSizeArgs
                      ELSE IF op = "p_fetch_all"
                           THEN (PageSizeArgs \ {NONE}) \cup {DefaultPageSize}
                           ELSE {NONE})
    /\ retries \in (IF op = "p_request" THEN 0..MaxRetries ELSE {DefaultRetries})
    /\ pc = (CASE op \in FetchAllOps -> "loop"
               [] op = "p_request" -> "exec"
               [] op = "p_orderbook" -> "exec"
               [] op = "p_details" -> "exec"
               [] op = "k_orderbook" -> "ob1"
               [] op = "k_details" -> "d1")
    /\ all_markets = <<>>
    /\ page_num = 0
    /\ total_fetched = 0
    /\ current_offset = 0
    /\ current_cursor = NONE
    /\ page_limit = NONE
    /\ current_delay \in InitDelays
    /\ attempt = 0
    /\ execResult = "none"
    /\ errStatus = 0
    /\ body = <<>>
    /\ result = "none"
    /\ returned = <<>>
    /\ sends = 0
    /\ reqs = 0
    /\ hrlCalls = 0
    /\ n429 = 0
    /\ streak429 = 0
    /\ last = "none"
    /\ contrib = 0
    /\ onlyTenPages = TRUE
    /\ served = <<>>
    /\ next_cursor = NONE
    /\ cbCalls = 0
    /\ cbArgs = <<0, 0>>

\* ---------------------------------------------------- how a call finishes
Return(list) ==
    /\ result' = "returned"
    /\ returned' = list
    /\ pc' = "done"

RaiseTyped ==
    /\ result' = "typed"
    /\ returned' = <<>>
    /\ pc' = "done"

RaiseRaw ==
    /\ result' = "raw"
    /\ returned' = <<>>
    /\ pc' = "done"

\* ------------------------------------- Polymarket HTTP request executor
\* _make_gamma_request and _make_clob_request are the same code on two base
\* URLs.  pc = "exec" is the first executor call of the operation, "exec2"
\* the fallback call of fetch_market_details.
ExecPcs == {"exec", "exec2"}
RetPc(p) == IF p = "exec" THEN "ret" ELSE "ret2"

\* Mutant: the retry loop runs one index too far.
InRangeInclusive(a, r) == a <= r

\* `for attempt in range(retries)`: the loop body runs for this index.
InRange(a, r) == a < r

\* Mutant: the executor gives up on a 429 one attempt early.
AttemptsRemainEarly(a, r) == a < r - 2

\* `attempt < retries - 1`: another iteration of the retry loop is left.
AttemptsRemain(a, r) == a < r - 1

ExecRaise(status) ==
    /\ execResult' = "error"
    /\ errStatus' = status
    /\ pc' = RetPc(pc)
    /\ UNCHANGED <<attempt, body>>

ExecRetry ==
    /\ attempt' = attempt + 1
    /\ UNCHANGED <<execResult, errStatus, body, pc>>

\* 2xx answer with a decodable body: record_request, raise_for_status
\* passes, reset_delay, return response.json().
ExecOk ==
    /\ pc \in ExecPcs
    /\ InRange(attempt, retries)
    /\ \E b \in (IF op = "p_fetch_all" THEN PolyPages ELSE SinglePayloads) :
          /\ body' = b
          /\ onlyTenPages' = (onlyTenPages /\ b = TenPage)
    /\ sends' = sends + 1
    /\ last' = "ok"
    /\ current_delay' = ResetDelay(current_delay)
    /\ execResult' = "body"
    /\ pc' = RetPc(pc)
    /\ UNCHANGED <<attempt, errStatus, hrlCalls, n429, streak429>>
    /\ UNCHANGED <<limVars, sideVars>>
    /\ UNCHANGED <<argVars, pageVars, result, returned>>

\* 429 answer: handle_rate_limit_error, wait, and `continue` while attempts
\* remain; on the last attempt raise_for_status raises and the HTTPError
\* handler wraps it.
Exec429 ==
    /\ pc \in ExecPcs
    /\ InRange(attempt, retries)
    /\ onlyTenPages' = FALSE
    /\ sends' = sends + 1
    /\ last' = "s429"
    /\ n429' = n429 + 1
    /\ hrlCalls' = hrlCalls + 1
    /\ current_delay' = HandleRateLimitError(current_delay)
    /\ IF AttemptsRemain(attempt, retries) THEN ExecRetry ELSE ExecRaise(429)
    /\ UNCHANGED <<limVars, sideVars>>
    /\ UNCHANGED <<streak429, argVars, pageVars, result, returned>>

\* Mutant: an error status is handled like a transport failure (retried),
\* and the limiter backs off on it.
ExecHttpErrorRetried ==
    /\ pc \in ExecPcs
    /\ InRange(attempt, retries)
    /\ onlyTenPages' = FALSE
    /\ sends' = sends + 1
    /\ last' = "serr"
    /\ current_delay' = HandleRateLimitError(current_delay)
    /\ IF AttemptsRemain(attempt, retries) THEN ExecRetry ELSE ExecRaise(500)
    /\ UNCHANGED <<hrlCalls, n429, streak429>>
    /\ UNCHANGED <<limVars, sideVars>>
    /\ UNCHANGED <<argVars, pageVars, result, returned>>

\* Any other 4xx/5xx answer: raise_for_status raises HTTPError, wrapped
\* at once into PolymarketAPIError("HTTP <status>: <text>").
ExecHttpError ==
    /\ pc \in ExecPcs
    /\ InRange(attempt, retries)
    /\ \E s \in HttpErrorStatuses : ExecRaise(s)
    /\ onlyTenPages' = FALSE
    /\ sends' = sends + 1
    /\ last' = "serr"
    /\ UNCHANGED <<current_delay, hrlCalls, n429, streak429>>
    /\ UNCHANGED <<limVars, sideVars>>
    /\ UNCHANGED <<argVars, pageVars, result, returned>>

\* session.request raises a RequestException (timeout, connection):
\* sleep 2^attempt and retry while attempts remain, else raise typed.
ExecNetFail ==
    /\ pc \in ExecPcs
    /\ InRange(attempt, retries)
    /\ onlyTenPages' = FALSE
    /\ sends' = sends + 1
    /\ last' = "net"
    /\ IF AttemptsRemain(attempt, retries) THEN ExecRetry ELSE ExecRaise(0)
    /\ UNCHANGED <<current_delay, hrlCalls, n429, streak429>>
    /\ UNCHANGED <<limVars, sideVars>>
    /\ UNCHANGED <<argVars, pageVars, result, returned>>

\* 2xx answer whose body is not JSON: reset_delay has run, response.json()
\* raises.  Depending on the installed requests version the error is a
\* RequestException (handled like a network failure) or a plain ValueError
\* (escapes the executor unwrapped).
ExecBadJson ==
    /\ pc \in ExecPcs
    /\ InRange(attempt, retries)
    /\ onlyTenPages' = FALSE
    /\ sends' = sends + 1
    /\ last' = "badjson"
    /\ current_delay' = ResetDelay(current_delay)
    /\ \/ IF AttemptsRemain(attempt, retries) THEN ExecRetry ELSE ExecRaise(0)
       \/ /\ execResult' = "raw"
          /\ pc' = RetPc(pc)
          /\ UNCHANGED <<attempt, errStatus, body>>
    /\ UNCHANGED <<hrlCalls, n429, streak429>>
    /\ UNCHANGED <<limVars, sideVars>>
    /\ UNCHANGED <<argVars, pageVars, result, returned>>

\* range(retries) is empty: PolymarketAPIError("Request failed after ...").
ExecNoAttempts ==
    /\ pc \in ExecPcs
    /\ ~InRange(attempt, retries)
    /\ ExecRaise(0)
    /\ UNCHANGED <<sends, last, current_delay, hrlCalls, n429, streak429,
                   onlyTenPages>>
    /\ UNCHANGED <<limVars, sideVars>>
    /\ UNCHANGED <<argVars, pageVars, result, returned>>

\* ------------------------------------------------------ paginator helpers
\* Mutant: the limit test is dropped.
StopByLimitNever(lim, total) == FALSE

\* `if limit and total_fetched >= limit`
StopByLimit(lim, total) == Truthy(lim) /\ total >= lim

\* Mutant: the page-count test is off by one.
StopByPagesLate(mp, pn) == Truthy(mp) /\ pn > mp

\* `if max_pages and page_num >= max_pages`
StopByPages(mp, pn) == Truthy(mp) /\ pn >= mp

\* Polymarket: page_limit = page_size, or min(remaining, page_size).
PolyPageLimit(lim, total, ps) ==
    IF Truthy(lim) THEN Min(lim - total, ps) ELSE ps

\* Kalshi: page_limit = None | min(remaining, page_size) | remaining | page_size.
KalshiPageLimit(lim, total, ps) ==
    IF Truthy(lim)
    THEN (IF Truthy(ps) THEN Min(lim - total, ps) ELSE lim - total)
    ELSE (IF Truthy(ps) THEN ps ELSE NONE)

\* Mutant: the partial-failure test is inverted.
HasProgressInverted(all) == all = <<>>

\* `if all_markets:` of the except handlers (partial-failure policy).
HasProgress(all) == all # <<>>

\* Mutant: a page is never taken for the last one by its length.
ShortPageNever(n, pl) == FALSE

\* `if len(page_markets) < page_limit`
ShortPage(n, pl) == n < pl

\* Polymarket: walk over the events of one page.  `have` is
\* len(all_markets), `acc` is len(page_markets); total_fetched is their sum
\* after every append.  AddMarkets appends the k markets of one event
\* (k = 1 for an event that is itself the market), checking the limit
\* before each; a record that cannot be normalized raises out of the walk.
RECURSIVE AddMarkets(_, _, _, _)
AddMarkets(k, lim, have, acc) ==
    IF k = 0 THEN acc
    ELSE IF StopByLimit(lim, have + acc) THEN acc
    ELSE AddMarkets(k - 1, lim, have, acc + 1)

RECURSIVE PWalk(_, _, _, _)
PWalk(events, lim, have, acc) ==
    IF events = <<>> THEN [n |-> acc, raised |-> FALSE]
    ELSE IF StopByLimit(lim, have + acc) THEN [n |-> acc, raised |-> FALSE]
    ELSE IF Head(events) = "bad" THEN [n |-> acc, raised |-> TRUE]
    ELSE PWalk(Tail(events), lim, have,
               AddMarkets(NMarkets(Head(events)), lim, have, acc))

\* Kalshi: every record of the page is normalized, no limit check.
KWalk(records) ==
    [n |-> Len(records), raised |-> \E i \in 1..Len(records) : records[i] = "bad"]

\* Mutant: the page is put in front of what was accumulated.
ExtendFront(all, page) == page \o all

\* `all_markets.extend(page_markets)`
Extend(all, page) == all \o page

\* Mutant: the cursor is not looked at, only an empty page ends the fetch.
LastPageIgnoresCursor(nc, n) == n = 0

\* Kalshi: `if not next_cursor or not page_markets: break`
LastPage(nc, n) == ~Truthy(nc) \/ n = 0

\* `all_markets = all_markets[:limit]` when the page went over the limit.
Trim(all, lim) == IF Len(all) > lim THEN SubSeq(all, 1, lim) ELSE all

\* Outer `except Exception` of fetch_all_markets (both adapters): return
\* what was accumulated, or raise the typed error when there is nothing.
OuterExcept ==
    IF HasProgress(all_markets) THEN Return(all_markets) ELSE RaiseTyped

\* ------------------------------------ PolymarketClient.fetch_all_markets
\* Top of the while loop: the two stop tests, else the page size and the
\* call of _make_gamma_request.
PLoopHead ==
    /\ op = "p_fetch_all"
    /\ pc = "loop"
    /\ IF StopByLimit(limit, total_fetched) \/ StopByPages(max_pages, page_num)
       THEN /\ Return(all_markets)
            /\ UNCHANGED <<page_limit, reqs, attempt, execResult, errStatus,
                           sends, hrlCalls, n429, last>>
       ELSE /\ reqs < MaxPageReqs
            /\ page_limit' = PolyPageLimit(limit, total_fetched, page_size)
            /\ reqs' = reqs + 1
            /\ attempt' = 0
            /\ execResult' = "none"
            /\ errStatus' = 0
            /\ sends' = 0
            /\ hrlCalls' = 0
            /\ n429' = 0
            /\ last' = "none"
            /\ pc' = "exec"
            /\ UNCHANGED <<result, returned>>
    /\ UNCHANGED <<limVars, sideVars>>
    /\ UNCHANGED <<argVars, all_markets, page_num, total_fetched,
                   current_offset, current_cursor, contrib, current_delay,
                   body, streak429, onlyTenPages, recvVars>>

\* The executor raised PolymarketAPIError: `except PolymarketAPIError`
\* breaks with the accumulated markets, or re-raises into the outer handler
\* when there are none.  Anything else that escaped goes to the outer
\* handler directly.
PPageFailed ==
    /\ op = "p_fetch_all"
    /\ pc = "ret"
    /\ execResult \in {"error", "raw"}
    /\ OuterExcept
    /\ UNCHANGED <<limVars, sideVars>>
    /\ UNCHANGED <<argVars, pageVars, execVars, current_delay, sends,
                   hrlCalls, n429, streak429, last, onlyTenPages>>

\* The executor returned a body: normalize the page, extend, count, and
\* decide whether to go on.  When the loop goes on, the response and the
\* finished executor call's locals are gone.
PPageOk ==
    /\ op = "p_fetch_all"
    /\ pc = "ret"
    /\ execResult = "body"
    /\ LET w == PWalk(body, limit, Len(all_markets), 0)
           raw == PageIds(Flatten(body), Len(served))
           ext == Extend(all_markets, SubSeq(raw, 1, w.n))
       IN  /\ served' = served \o raw
           /\ UNCHANGED next_cursor
           /\ IF w.raised
              THEN
                /\ OuterExcept
                /\ total_fetched' = Len(all_markets) + w.n
                /\ UNCHANGED <<all_markets, page_num, contrib, current_offset,
                               cbCalls, cbArgs>>
              ELSE IF w.n = 0
              THEN
                /\ Return(all_markets)
                /\ UNCHANGED <<all_markets, total_fetched, page_num, contrib,
                               current_offset, cbCalls, cbArgs>>
              ELSE
                /\ page_num' = page_num + 1
                /\ contrib' = contrib + 1
                /\ cbCalls' = cbCalls + 1
                /\ cbArgs' = <<page_num + 1, Len(ext)>>
                /\ IF StopByLimit(limit, Len(ext))
                   THEN /\ all_markets' = Trim(ext, limit)
                        /\ total_fetched' = Len(Trim(ext, limit))
                        /\ Return(Trim(ext, limit))
                        /\ UNCHANGED current_offset
                   ELSE /\ all_markets' = ext
                        /\ total_fetched' = Len(ext)
                        /\ IF ShortPage(w.n, page_limit)
                           THEN /\ Return(ext)
                                /\ UNCHANGED current_offset
                           ELSE /\ current_offset' = current_offset + page_limit
                                /\ pc' = "loop"
                                /\ UNCHANGED <<result, returned>>
    /\ IF pc' = "loop"
       THEN /\ body' = <<>>
            /\ attempt' = 0
            /\ execResult' = "none"
            /\ sends' = 0
            /\ hrlCalls' = 0
            /\ n429' = 0
            /\ last' = "none"
       ELSE UNCHANGED <<body, attempt, execResult, sends, hrlCalls, n429,
                        last>>
    /\ UNCHANGED <<limVars, sideVars>>
    /\ UNCHANGED <<argVars, current_cursor, page_limit, reqs, errStatus,
                   current_delay, streak429, onlyTenPages>>

\* --------------------------------------- KalshiClient.fetch_all_markets
\* One iteration of the while loop per action; the upstream's answer to
\* sdk_client.get_markets selects the action.
KGoesOn ==
    /\ op = "k_fetch_all"
    /\ pc = "loop"
    /\ ~StopByLimit(limit, total_fetched)
    /\ ~StopByPages(max_pages, page_num)
    /\ reqs < MaxPageReqs

KRequestSent ==
    /\ page_limit' = KalshiPageLimit(limit, total_fetched, page_size)
    /\ reqs' = reqs + 1
    /\ sends' = sends + 1

\* One of the two stop tests at the top of the loop holds: break.
KStop ==
    /\ op = "k_fetch_all"
    /\ pc = "loop"
    /\ StopByLimit(limit, total_fetched) \/ StopByPages(max_pages, page_num)
    /\ Return(all_markets)
    /\ UNCHANGED <<limVars, sideVars>>
    /\ UNCHANGED <<argVars, pageVars, execVars, current_delay, sends,
                   hrlCalls, n429, streak429, last, onlyTenPages>>

\* get_markets answers with a page and, possibly, a next cursor:
\* record_request, reset_delay, normalize every record, extend, count,
\* then break unless there is a cursor and the page was not empty.
KPageOk ==
    /\ KGoesOn
    /\ KRequestSent
    /\ last' = "ok"
    /\ streak429' = 0
    /\ current_delay' = ResetDelay(current_delay)
    /\ \E page \in KalshiPages, nc \in {NONE, reqs + 1} :
         LET w == KWalk(page)
             raw == PageIds(page, Len(served))
             ext == Extend(all_markets, raw)
         IN  /\ onlyTenPages' = (onlyTenPages /\ page = TenPage /\ Truthy(nc))
             /\ served' = served \o raw
             /\ IF w.raised
                THEN /\ OuterExcept
                     /\ UNCHANGED <<all_markets, total_fetched, page_num,
                                    contrib, current_cursor, next_cursor,
                                    cbCalls, cbArgs>>
                ELSE /\ all_markets' = ext
                     /\ total_fetched' = Len(ext)
                     /\ page_num' = page_num + 1
                     /\ contrib' = contrib + (IF w.n > 0 THEN 1 ELSE 0)
                     /\ cbCalls' = cbCalls + 1
                     /\ cbArgs' = <<page_num + 1, Len(ext)>>
                     /\ next_cursor' = nc
                     /\ IF LastPage(nc, w.n)
                        THEN /\ Return(ext)
                             /\ UNCHANGED current_cursor
                        ELSE /\ current_cursor' = nc
                             /\ UNCHANGED <<pc, result, returned>>
    /\ UNCHANGED <<limVars, sideVars>>
    /\ UNCHANGED <<argVars, current_offset, execVars, hrlCalls, n429>>

\* Mutant: a 429 answer is counted as a page.
KPage429CountsPage ==
    /\ KGoesOn
    /\ KRequestSent
    /\ onlyTenPages' = FALSE
    /\ last' = "s429"
    /\ streak429' = streak429 + 1
    /\ n429' = n429 + 1
    /\ hrlCalls' = hrlCalls + 1
    /\ current_delay' = HandleRateLimitError(current_delay)
    /\ page_num' = page_num + 1
    /\ UNCHANGED <<limVars, sideVars>>
    /\ UNCHANGED <<argVars, all_markets, total_fetched,
                   current_offset, current_cursor, contrib, execVars, pc,
                   result, returned, recvVars>>

\* get_markets raises ApiException with status 429:
\* handle_rate_limit_error, wait, `continue`.
KPage429 ==
    /\ KGoesOn
    /\ KRequestSent
    /\ onlyTenPages' = FALSE
    /\ last' = "s429"
    /\ streak429' = streak429 + 1
    /\ n429' = n429 + 1
    /\ hrlCalls' = hrlCalls + 1
    /\ current_delay' = HandleRateLimitError(current_delay)
    /\ UNCHANGED <<limVars, sideVars>>
    /\ UNCHANGED <<argVars, all_markets, page_num, total_fetched,
                   current_offset, current_cursor, contrib, execVars, pc,
                   result, returned, recvVars>>

\* get_markets raises ApiException with another status: break with the
\* accumulated markets, or raise KalshiAPIError (which the outer handler,
\* finding nothing accumulated, wraps again).
KPageApiError ==
    /\ KGoesOn
    /\ KRequestSent
    /\ onlyTenPages' = FALSE
    /\ last' = "serr"
    /\ IF HasProgress(all_markets) THEN Return(all_markets) ELSE RaiseTyped
    /\ UNCHANGED <<limVars, sideVars>>
    /\ UNCHANGED <<argVars, all_markets, page_num, total_fetched,
                   current_offset, current_cursor, contrib, execVars,
                   current_delay, hrlCalls, n429, streak429, recvVars>>

\* get_markets raises anything that is not an ApiException (transport
\* failure inside the SDK): the outer handler decides.
KPageTransport ==
    /\ KGoesOn
    /\ KRequestSent
    /\ onlyTenPages' = FALSE
    /\ last' = "net"
    /\ OuterExcept
    /\ UNCHANGED <<limVars, sideVars>>
    /\ UNCHANGED <<argVars, all_markets, page_num, total_fetched,
                   current_offset, current_cursor, contrib, execVars,
                   current_delay, hrlCalls, n429, streak429, recvVars>>

\* ------------------------------------------ KalshiClient.fetch_orderbook
\* Answers to requests.get: a 2xx with a normalizable book ("ok"), a 2xx
\* whose body is not JSON ("badjson") or has a shape _normalize_orderbook
\* raises on ("badshape"), a 429 ("s429"), another error status ("serr"),
\* or a RequestException raised by the transport ("net").
HttpOutcomes == {"ok", "badjson", "badshape", "s429", "serr", "net"}

\* Answers to an SDK call: as above; "s429"/"serr" are ApiException with
\* that status, "net" any exception that is not an ApiException.
SdkOutcomes == {"ok", "badshape", "s429", "serr", "net"}

SingleUnchanged ==
    UNCHANGED <<argVars, pageVars, execVars, streak429, onlyTenPages, limVars,
                sideVars>>

\* Lines 226-243: the first request.  A 429 backs off and goes to the
\* inline retry; every failure ends in KalshiAPIError (HTTPError and
\* RequestException handlers of the inner try, or the outer handler).
KOrderbookFirst ==
    /\ op = "k_orderbook"
    /\ pc = "ob1"
    /\ sends' = sends + 1
    /\ \E o \in HttpOutcomes :
         /\ last' = o
         /\ CASE o = "s429" ->
                   /\ current_delay' = HandleRateLimitError(current_delay)
                   /\ hrlCalls' = hrlCalls + 1
                   /\ n429' = n429 + 1
                   /\ pc' = "ob2"
                   /\ UNCHANGED <<result, returned>>
              [] o = "ok" ->
                   /\ current_delay' = ResetDelay(current_delay)
                   /\ Return(<<>>)
                   /\ UNCHANGED <<hrlCalls, n429>>
              [] o \in {"badjson", "badshape"} ->
                   /\ current_delay' = ResetDelay(current_delay)
                   /\ RaiseTyped
                   /\ UNCHANGED <<hrlCalls, n429>>
              [] o \in {"serr", "net"} ->
                   /\ RaiseTyped
                   /\ UNCHANGED <<current_delay, hrlCalls, n429>>
    /\ SingleUnchanged

\* Line 234, "Retry once": the request repeated inside the inner try.  A
\* second 429 makes raise_for_status raise HTTPError, whose handler sees
\* status 429, backs off again and goes to its own retry.
KOrderbookRetry ==
    /\ op = "k_orderbook"
    /\ pc = "ob2"
    /\ sends' = sends + 1
    /\ \E o \in HttpOutcomes :
         /\ last' = o
         /\ CASE o = "s429" ->
                   /\ current_delay' = HandleRateLimitError(current_delay)
                   /\ hrlCalls' = hrlCalls + 1
                   /\ n429' = n429 + 1
                   /\ pc' = "ob3"
                   /\ UNCHANGED <<result, returned>>
              [] o = "ok" ->
                   /\ current_delay' = ResetDelay(current_delay)
                   /\ Return(<<>>)
                   /\ UNCHANGED <<hrlCalls, n429>>
              [] o \in {"badjson", "badshape"} ->
                   /\ current_delay' = ResetDelay(current_delay)
                   /\ RaiseTyped
                   /\ UNCHANGED <<hrlCalls, n429>>
              [] o \in {"serr", "net"} ->
                   /\ RaiseTyped
                   /\ UNCHANGED <<current_delay, hrlCalls, n429>>
    /\ SingleUnchanged

\* Lines 249-253: the request repeated inside the HTTPError handler.
\* Whatever is raised here leaves the inner try and is wrapped by the
\* outer `except Exception`; on success only record_request runs.
KOrderbookHandlerRetry ==
    /\ op = "k_orderbook"
    /\ pc = "ob3"
    /\ sends' = sends + 1
    /\ \E o \in HttpOutcomes :
         /\ last' = o
         /\ n429' = n429 + (IF o = "s429" THEN 1 ELSE 0)
         /\ IF o = "ok" THEN Return(<<>>) ELSE RaiseTyped
    /\ UNCHANGED <<current_delay, hrlCalls>>
    /\ SingleUnchanged

\* ------------------------------------- KalshiClient.fetch_market_details
\* Lines 275-308 and the handlers at 309-343 for the first request.
KDetailsFirst ==
    /\ op = "k_details"
    /\ pc = "d1"
    /\ sends' = sends + 1
    /\ \E o \in SdkOutcomes :
         /\ last' = o
         /\ CASE o = "s429" ->
                   /\ current_delay' = HandleRateLimitError(current_delay)
                   /\ hrlCalls' = hrlCalls + 1
                   /\ n429' = n429 + 1
                   /\ pc' = "d2"
                   /\ UNCHANGED <<result, returned>>
              [] o = "ok" ->
                   /\ current_delay' = ResetDelay(current_delay)
                   /\ Return(<<>>)
                   /\ UNCHANGED <<hrlCalls, n429>>
              [] o = "badshape" ->
                   /\ current_delay' = ResetDelay(current_delay)
                   /\ RaiseTyped
                   /\ UNCHANGED <<hrlCalls, n429>>
              [] o \in {"serr", "net"} ->
                   /\ RaiseTyped
                   /\ UNCHANGED <<current_delay, hrlCalls, n429>>
    /\ SingleUnchanged

\* Lines 315-340: the retry inside the `except ApiException` handler.  Its
\* own try catches ApiException only; the `except Exception` clause of the
\* enclosing try does not cover a handler of the same statement, so any
\* other exception leaves the method as it is.
RetryEscapes(o) == o \in {"badshape", "net"}

KDetailsRetry ==
    /\ op = "k_details"
    /\ pc = "d2"
    /\ sends' = sends + 1
    /\ \E o \in SdkOutcomes :
         /\ last' = o
         /\ n429' = n429 + (IF o = "s429" THEN 1 ELSE 0)
         /\ IF o = "ok" THEN Return(<<>>)
            ELSE IF RetryEscapes(o) THEN RaiseRaw
            ELSE RaiseTyped
    /\ UNCHANGED <<current_delay, hrlCalls>>
    /\ SingleUnchanged

\* --------------------- PolymarketClient.fetch_orderbook (CLOB executor)
\* A body is normalized and returned; a PolymarketAPIError is re-raised
\* (with context when it mentions 404); anything else is wrapped.
POrderbookDone ==
    /\ op = "p_orderbook"
    /\ pc = "ret"
    /\ IF execResult = "body" /\ body = <<"self">>
       THEN Return(<<>>)
       ELSE RaiseTyped
    /\ UNCHANGED <<limVars, sideVars>>
    /\ UNCHANGED <<argVars, pageVars, execVars, current_delay, sends,
                   hrlCalls, n429, streak429, last, onlyTenPages>>

\* ----------------------------- PolymarketClient.fetch_market_details
\* First executor call (/events/slug/..) raised PolymarketAPIError: call
\* the executor again (/markets/slug/..).
PDetailsFallback ==
    /\ op = "p_details"
    /\ pc = "ret"
    /\ execResult = "error"
    /\ pc' = "exec2"
    /\ attempt' = 0
    /\ execResult' = "none"
    /\ errStatus' = 0
    /\ sends' = 0
    /\ hrlCalls' = 0
    /\ n429' = 0
    /\ last' = "none"
    /\ UNCHANGED <<limVars, sideVars>>
    /\ UNCHANGED <<argVars, pageVars, body, current_delay, streak429,
                   result, returned, onlyTenPages>>

\* Either executor call ended otherwise (or the fallback raised): unwrap
\* and normalize the body, re-raise PolymarketAPIError, wrap the rest.
PDetailsDone ==
    /\ op = "p_details"
    /\ \/ pc = "ret" /\ execResult \in {"body", "raw"}
       \/ pc = "ret2"
    /\ IF execResult = "body" /\ body = <<"self">>
       THEN Return(<<>>)
       ELSE RaiseTyped
    /\ UNCHANGED <<limVars, sideVars>>
    /\ UNCHANGED <<argVars, pageVars, execVars, current_delay, sends,
                   hrlCalls, n429, streak429, last, onlyTenPages>>

\* ------------------------------------------------------------------- Next
Next ==
    \/ ExecOk
    \/ Exec429
    \/ ExecHttpError
    \/ ExecNetFail
    \/ ExecBadJson
    \/ ExecNoAttempts
    \/ PLoopHead
    \/ PPageFailed
    \/ PPageOk
    \/ KStop
    \/ KPageOk
    \/ KPage429
    \/ KPageApiError
    \/ KPageTransport
    \/ KOrderbookFirst
    \/ KOrderbookRetry
    \/ KOrderbookHandlerRetry
    \/ KDetailsFirst
    \/ KDetailsRetry
    \/ POrderbookDone
    \/ PDetailsFallback
    \/ PDetailsDone

Spec == Init /\ [][Next]_vars

(***************************************************************************)
(* RateLimiter: the delay under sequences of calls (SpecDelay)             *)
(***************************************************************************)
\* No adapter call is in progress; `o` names what the behaviour is about.
CallIdle(o) ==
    /\ op = o
    /\ limit = NONE
    /\ max_pages = NONE
    /\ page_size = NONE
    /\ retries = DefaultRetries
    /\ pc = "none"
    /\ all_markets = <<>>
    /\ page_num = 0
    /\ total_fetched = 0
    /\ current_offset = 0
    /\ current_cursor = NONE
    /\ page_limit = NONE
    /\ attempt = 0
    /\ execResult = "none"
    /\ errStatus = 0
    /\ body = <<>>
    /\ result = "none"
    /\ returned = <<>>
    /\ sends = 0
    /\ reqs = 0
    /\ hrlCalls = 0
    /\ n429 = 0
    /\ streak429 = 0
    /\ last = "none"
    /\ contrib = 0
    /\ onlyTenPages = TRUE
    /\ served = <<>>
    /\ next_cursor = NONE
    /\ cbCalls = 0
    /\ cbArgs = <<0, 0>>

RECURSIVE Pow(_, _)
Pow(b, n) == IF n = 0 THEN 1 ELSE b * Pow(b, n - 1)

\* Number of halvings that take any delay up to max_delay to the floor.
HalvingsToFloor ==
    CHOOSE n \in 0..MaxBackoffs :
        /\ MinDelay * Pow(BackoffFactor, n) >= MaxDelay
        /\ \A k \in 0..(n - 1) : MinDelay * Pow(BackoffFactor, k) < MaxDelay

\* RateLimiter(): current_delay = min_delay.
DelayInit ==
    /\ CallIdle("limiter_calls")
    /\ LimiterIdle
    /\ BookIdle
    /\ NormIdle
    /\ StoreIdle
    /\ DomeIdle
    /\ DefaultLimiter
    /\ current_delay = MinDelay

\* One handle_rate_limit_error() call.
DelayBackoff ==
    /\ op = "limiter_calls"
    /\ backoffs < MaxBackoffs
    /\ current_delay' = HandleRateLimitError(current_delay)
    /\ backoffs' = backoffs + 1
    /\ successes' = 0
    /\ UNCHANGED <<fresh, nthreads, lock, tpc, time_since_last, sinceReturn,
                   sinceSend, callVars, sideVars>>

\* One reset_delay() call.
DelaySuccess ==
    /\ op = "limiter_calls"
    /\ current_delay' = ResetDelay(current_delay)
    /\ fresh' = FALSE
    /\ backoffs' = 0
    /\ successes' = Min(successes + 1, HalvingsToFloor)
    /\ UNCHANGED <<nthreads, lock, tpc, time_since_last, sinceReturn,
                   sinceSend, callVars, sideVars>>

DelayNext ==
    \/ DelayBackoff
    \/ DelaySuccess

SpecDelay == DelayInit /\ [][DelayNext]_vars

(***************************************************************************)
(* RateLimiter: threads and time (SpecLimiter)                             *)
(*                                                                         *)
(* Each thread runs the request cycle the adapters run: wait_if_needed(),  *)
(* send, and on the answer record_request() and reset_delay(), or          *)
(* handle_rate_limit_error() and wait_if_needed() again, or nothing.       *)
(* Time is kept relative to the events it is compared with, and counts as  *)
(* max_delay once it is that long ago.                                     *)
(***************************************************************************)
Threads == 1..nthreads

\* Time a request may take.
Latencies == {0, MinDelay \div 2, MaxDelay}

Advance(x, dt) == Min(x + dt, MaxDelay)

\* The clock moves on by dt.
Pass(dt) ==
    /\ time_since_last' = Advance(time_since_last, dt)
    /\ sinceReturn' = Advance(sinceReturn, dt)
    /\ sinceSend' = Advance(sinceSend, dt)

\* Thread positions inside `with self.lock:` of wait_if_needed().
InWait == {"in_top", "in_back"}

LimInit ==
    /\ CallIdle("limiter")
    /\ BookIdle
    /\ NormIdle
    /\ StoreIdle
    /\ DomeIdle
    /\ DefaultLimiter
    /\ nthreads \in 1..MaxThreads
    /\ lock = 0
    /\ tpc = [t \in 1..nthreads |-> "top"]
    /\ time_since_last = MaxDelay
    /\ sinceReturn = MaxDelay
    /\ sinceSend = MaxDelay
    /\ fresh = TRUE
    /\ backoffs = 0
    /\ successes = 0
    /\ current_delay = MinDelay

LimUnchanged ==
    UNCHANGED <<nthreads, fresh, backoffs, successes, sideVars, op, limit,
                max_pages, page_size, retries, pc, all_markets, page_num,
                total_fetched, current_offset, current_cursor, page_limit,
                attempt, execResult, errStatus, body, result, returned, sends,
                reqs, n429, streak429, last, contrib, onlyTenPages, served,
                next_cursor, cbCalls, cbArgs>>

\* Mutant: the lock is not taken.
LockIgnored(l) == TRUE

\* `with self.lock:` can be entered.
LockFree(l) == l = 0

\* Mutant: the wait is computed from min_delay, not from current_delay.
SleepTimeFromFloor(since, d) ==
    IF since < MinDelay THEN MinDelay - since ELSE 0

\* sleep_time of wait_if_needed(): current_delay - time_since_last, if due.
SleepTime(since, d) == IF since < d THEN d - since ELSE 0

\* wait_if_needed(), lines 42-48: take the lock, read the clock, sleep.
WaitEnter(t) ==
    /\ tpc[t] \in {"top", "backoff"}
    /\ LockFree(lock)
    /\ lock' = t
    /\ Pass(SleepTime(time_since_last, current_delay))
    /\ tpc' = [tpc EXCEPT ![t] = IF tpc[t] = "top" THEN "in_top" ELSE "in_back"]
    /\ UNCHANGED <<current_delay, hrlCalls>>
    /\ LimUnchanged

\* wait_if_needed(), line 50: last_request_time = time.time(); release.
\* After the wait at the top of a request cycle the request is sent; after
\* the wait that follows a backoff either the cycle starts over
\* (`continue`) or the retry is sent directly.
WaitUpdate(t) ==
    /\ tpc[t] \in InWait
    /\ time_since_last' = 0
    /\ sinceReturn' = 0
    /\ lock' = 0
    /\ \E next \in (IF tpc[t] = "in_top" THEN {"send"} ELSE {"top", "send"}) :
          tpc' = [tpc EXCEPT ![t] = next]
    /\ UNCHANGED <<sinceSend, current_delay, hrlCalls>>
    /\ LimUnchanged

\* The HTTP request goes out.
Send(t) ==
    /\ tpc[t] = "send"
    /\ sinceSend' = 0
    /\ tpc' = [tpc EXCEPT ![t] = "resp"]
    /\ UNCHANGED <<lock, time_since_last, sinceReturn, current_delay,
                   hrlCalls>>
    /\ LimUnchanged

\* The answer arrives after some latency.  It leads to record_request()
\* (Polymarket: any answer; Kalshi: a success), straight to
\* handle_rate_limit_error() (Kalshi: a 429), or to no limiter call (the
\* request raised).
Response(t) ==
    /\ tpc[t] = "resp"
    /\ \E dt \in Latencies : Pass(dt)
    /\ \E next \in {"record", "hrl", "top"} :
          tpc' = [tpc EXCEPT ![t] = next]
    /\ UNCHANGED <<lock, current_delay, hrlCalls>>
    /\ LimUnchanged

\* record_request(): last_request_time = time.time(), under the lock.
\* Next comes reset_delay() (a success), handle_rate_limit_error() (a 429),
\* or the end of the cycle (an error answer, or a retry's success).
RecordRequest(t) ==
    /\ tpc[t] = "record"
    /\ LockFree(lock)
    /\ time_since_last' = 0
    /\ \E next \in {"reset", "hrl", "top"} :
          tpc' = [tpc EXCEPT ![t] = next]
    /\ UNCHANGED <<lock, sinceReturn, sinceSend, current_delay, hrlCalls>>
    /\ LimUnchanged

\* reset_delay(), under the lock.
ResetDelayCall(t) ==
    /\ tpc[t] = "reset"
    /\ LockFree(lock)
    /\ current_delay' = ResetDelay(current_delay)
    /\ tpc' = [tpc EXCEPT ![t] = "top"]
    /\ UNCHANGED <<lock, time_since_last, sinceReturn, sinceSend, hrlCalls>>
    /\ LimUnchanged

\* handle_rate_limit_error(), under the lock; wait_if_needed() follows.
HandleRateLimitCall(t) ==
    /\ tpc[t] = "hrl"
    /\ LockFree(lock)
    /\ hrlCalls < MaxRateLimits
    /\ hrlCalls' = hrlCalls + 1
    /\ current_delay' = HandleRateLimitError(current_delay)
    /\ tpc' = [tpc EXCEPT ![t] = "backoff"]
    /\ UNCHANGED <<lock, time_since_last, sinceReturn, sinceSend>>
    /\ LimUnchanged

\* Between two request cycles the caller does something else for long.
Pause(t) ==
    /\ tpc[t] = "top"
    /\ Pass(MaxDelay)
    /\ UNCHANGED <<lock, tpc, current_delay, hrlCalls>>
    /\ LimUnchanged

LimNext ==
    \/ \E t \in Threads : WaitEnter(t)
    \/ \E t \in Threads : WaitUpdate(t)
    \/ \E t \in Threads : Send(t)
    \/ \E t \in Threads : Response(t)
    \/ \E t \in Threads : RecordRequest(t)
    \/ \E t \in Threads : ResetDelayCall(t)
    \/ \E t \in Threads : HandleRateLimitCall(t)
    \/ \E t \in Threads : Pause(t)

SpecLimiter == LimInit /\ [][LimNext]_vars

(***************************************************************************)
(* _normalize_orderbook of both adapters (SpecBook)                        *)
(*                                                                         *)
(* A raw book is the list of its entries in response order, each tagged    *)
(* with the list it came in: 'yes'/'no' with 'bids'/'asks' for a           *)
(* dual-sided Kalshi book, 'bids'/'asks' otherwise.                        *)
(***************************************************************************)
Prices == 1..(PriceUnit - 1)
Quantities == {1, 2}
DualSides == {"yes_bids", "yes_asks", "no_bids", "no_asks"}
StandardSides == {"bids", "asks"}

RawEntries(sides) == [side : sides, price : Prices, quantity : Quantities]

RawBooks(dual) ==
    [dual : {dual},
     entries : SeqsUpTo(RawEntries(IF dual THEN DualSides ELSE StandardSides),
                        MaxBook),
     odd : {<<>>}]

\* Books in which one place is missing or holds null: `odd` maps the place
\* to which of the two.  A place is an outcome side ('yes', 'no') or an
\* array ('bids'/'asks', of the book or of an outcome side); the entries
\* are in the other places.  `dual` says what the normalizer tests: both
\* 'yes' and 'no' are keys of the book.
OddBooks(outcomes) ==
    LET places == IF outcomes THEN {"yes", "no"} \cup DualSides
                  ELSE StandardSides
        Under(p) == CASE p = "yes" -> {"yes_bids", "yes_asks"}
                      [] p = "no" -> {"no_bids", "no_asks"}
                      [] OTHER -> {p}
    IN  UNION {[dual : {outcomes /\ ~(p \in {"yes", "no"} /\ k = "missing")},
                entries : SeqsUpTo(
                    RawEntries((IF outcomes THEN DualSides ELSE StandardSides)
                               \ Under(p)), MaxBook - 1),
                odd : {[q \in {p} |-> k]}] :
               p \in places, k \in {"missing", "null"}}

BookOps == {"k_normalize_orderbook", "p_normalize_orderbook"}

BookInit ==
    /\ \E o \in BookOps : CallIdle(o)
    /\ LimiterIdle
    /\ NormIdle
    /\ StoreIdle
    /\ DomeIdle
    /\ DefaultLimiter
    /\ current_delay = MinDelay
    /\ orderbook_data \in
          (IF op = "k_normalize_orderbook"
           THEN RawBooks(TRUE) \cup RawBooks(FALSE)
                \cup OddBooks(TRUE) \cup OddBooks(FALSE)
           ELSE RawBooks(FALSE) \cup OddBooks(FALSE))
    /\ bids = <<>>
    /\ asks = <<>>

\* The entries of one list of the raw book, in response order.
SideOf(book, side) == SelectSeq(book.entries, LAMBDA e : e.side = side)

\* Mutant: the 'no' price is taken over as it is.
InvertNot(price) == price

\* `1.0 - float(price)`: the complementary price of a 'no' order.
Invert(price) == PriceUnit - price

\* OrderBookEntry(price=..., quantity=..., metadata=<the raw entry>)
Entry(e) == [price |-> e.price, quantity |-> e.quantity, metadata |-> e]
InvertedEntry(e) ==
    [price |-> Invert(e.price), quantity |-> e.quantity, metadata |-> e]

\* Polymarket keeps the raw fields other than price and size as metadata.
PolyEntry(e) ==
    [price |-> e.price, quantity |-> e.quantity, metadata |-> [side |-> e.side]]

\* `for bid in <list>: bids.append(OrderBookEntry(...))`
Entries(s) == [i \in 1..Len(s) |-> Entry(s[i])]
InvertedEntries(s) == [i \in 1..Len(s) |-> InvertedEntry(s[i])]
PolyEntries(s) == [i \in 1..Len(s) |-> PolyEntry(s[i])]

\* list.sort(key=price) is stable: an entry goes behind the entries already
\* placed that sort before it or equal to it.
InsertAsc(sorted, e) ==
    LET k == Cardinality({i \in 1..Len(sorted) : sorted[i].price <= e.price})
    IN  SubSeq(sorted, 1, k) \o <<e>> \o SubSeq(sorted, k + 1, Len(sorted))

InsertDesc(sorted, e) ==
    LET k == Cardinality({i \in 1..Len(sorted) : sorted[i].price >= e.price})
    IN  SubSeq(sorted, 1, k) \o <<e>> \o SubSeq(sorted, k + 1, Len(sorted))

RECURSIVE SortAsc(_)
SortAsc(s) ==
    IF s = <<>> THEN <<>>
    ELSE InsertAsc(SortAsc(SubSeq(s, 1, Len(s) - 1)), s[Len(s)])

RECURSIVE SortDesc(_)
SortDesc(s) ==
    IF s = <<>> THEN <<>>
    ELSE InsertDesc(SortDesc(SubSeq(s, 1, Len(s) - 1)), s[Len(s)])

\* Mutant: reverse=True is missing.
SortBidsAscending(s) == SortAsc(s)

\* `bids.sort(key=lambda x: x.price, reverse=True)`
SortBids(s) == SortDesc(s)

\* `asks.sort(key=lambda x: x.price)`
SortAsks(s) == SortAsc(s)

BookUnchanged ==
    UNCHANGED <<orderbook_data, limVars, normVars, storeVars, domeVars,
                sharedVars,
                current_delay, callRest>>

\* KalshiClient._normalize_orderbook: with 'yes' and 'no' in the book, yes
\* bids and inverted no asks are bids, yes asks and inverted no bids are
\* asks (appended in that order), a null outcome side counting as {} and a
\* missing array as []; otherwise the book's own bids and asks are taken.
\* Then both lists are sorted.  Iterating over an array that is null
\* raises TypeError.
KalshiOrderBook(book) ==
    LET IsNull(place) == /\ place \in DOMAIN book.odd
                         /\ book.odd[place] = "null"
    IN  IF book.dual
        THEN IF \E place \in DualSides : IsNull(place)
             THEN [raised |-> TRUE, bids |-> <<>>, asks |-> <<>>]
             ELSE [raised |-> FALSE,
                   bids |-> SortBids(
                       Entries(SideOf(book, "yes_bids"))
                       \o InvertedEntries(SideOf(book, "no_asks"))),
                   asks |-> SortAsks(
                       Entries(SideOf(book, "yes_asks"))
                       \o InvertedEntries(SideOf(book, "no_bids")))]
        ELSE IF \E place \in StandardSides : IsNull(place)
             THEN [raised |-> TRUE, bids |-> <<>>, asks |-> <<>>]
             ELSE [raised |-> FALSE,
                   bids |-> SortBids(Entries(SideOf(book, "bids"))),
                   asks |-> SortAsks(Entries(SideOf(book, "asks")))]

\* PolymarketClient._normalize_orderbook: bids and asks (a missing array
\* is []), sorted; iterating over an array that is null raises TypeError.
PolyOrderBook(book) ==
    IF \E place \in StandardSides :
          place \in DOMAIN book.odd /\ book.odd[place] = "null"
    THEN [raised |-> TRUE, bids |-> <<>>, asks |-> <<>>]
    ELSE [raised |-> FALSE,
          bids |-> SortBids(PolyEntries(SideOf(book, "bids"))),
          asks |-> SortAsks(PolyEntries(SideOf(book, "asks")))]

KNormalizeOrderbook ==
    /\ op = "k_normalize_orderbook"
    /\ pc = "none"
    /\ bids' = KalshiOrderBook(orderbook_data).bids
    /\ asks' = KalshiOrderBook(orderbook_data).asks
    /\ pc' = IF KalshiOrderBook(orderbook_data).raised
             THEN "raised" ELSE "normalized"
    /\ BookUnchanged

PNormalizeOrderbook ==
    /\ op = "p_normalize_orderbook"
    /\ pc = "none"
    /\ bids' = PolyOrderBook(orderbook_data).bids
    /\ asks' = PolyOrderBook(orderbook_data).asks
    /\ pc' = IF PolyOrderBook(orderbook_data).raised
             THEN "raised" ELSE "normalized"
    /\ BookUnchanged

BookNext ==
    \/ KNormalizeOrderbook
    \/ PNormalizeOrderbook

SpecBook == BookInit /\ [][BookNext]_vars

(***************************************************************************)
(* _normalize_market of both adapters (SpecNormalize)                      *)
(*                                                                         *)
(* A raw payload is a mapping from keys to raw values.  Raw values are     *)
(* tokens: Null is Python's None, "" the empty string, "A" and "B" are     *)
(* ordinary strings, "2024-12-31T23:59:59Z" is an ISO-8601 string, and a   *)
(* token starting with # is a number: #1735689599 the same instant in      *)
(* epoch seconds, #1735689599000 in milliseconds (a year beyond 9999),     *)
(* #1e20 a number beyond the platform's time_t.                            *)
(***************************************************************************)
Null == "<None>"
Strings == {"", "A", "B", "2024-12-31T23:59:59Z"}
Numbers == {"#1735689599", "#1735689599000", "#1e20"}

\* Python truthiness of a raw value: None and '' are false.
TruthyValue(v) == v \notin {Null, ""}

\* str(v)
Str(v) ==
    CASE v = Null -> "None"
      [] v = "#1735689599" -> "1735689599"
      [] v = "#1735689599000" -> "1735689599000"
      [] v = "#1e20" -> "1e+20"
      [] OTHER -> v

\* dict.get(key): the value, or None when the key is missing.
Get(d, key) == IF key \in DOMAIN d THEN d[key] ELSE Null

\* Mutant: the first candidate that is present wins, empty or not.
OrChainFirstPresent(operands) ==
    LET present == {i \in 1..Len(operands) : operands[i] # Null}
    IN  IF present = {} THEN operands[Len(operands)]
        ELSE operands[CHOOSE i \in present : \A j \in present : i <= j]

\* `a or b or ... or z`: the first operand that is true, else the last one.
RECURSIVE OrChain(_)
OrChain(operands) ==
    IF Len(operands) = 1 \/ TruthyValue(Head(operands)) THEN Head(operands)
    ELSE OrChain(Tail(operands))

\* Candidate keys of the canonical fields, in the order the code tries
\* them.  Kalshi looks every key up in market_data; Polymarket looks a key
\* up in the merged payload ("merged") or in market_data ("market").
KalshiCandidates ==
    [market_id |-> <<"ticker", "event_ticker", "market_id", "id", "event_id">>,
     name |-> <<"title", "name", "event_title", "question">>,
     rules |-> <<"rules", "subtitle", "description">>,
     stamp |-> <<"expected_expiration_time", "expiration_time">>]

PolyCandidates ==
    [market_id |-> << <<"merged", "slug">>, <<"market", "slug">>,
                      <<"merged", "condition_id">>, <<"market", "conditionId">>,
                      <<"merged", "conditionId">>, <<"market", "token_id">>,
                      <<"merged", "id">>, <<"market", "id">>,
                      <<"merged", "market_id">> >>,
     name |-> << <<"merged", "question">>, <<"market", "question">>,
                 <<"merged", "title">>, <<"market", "title">>,
                 <<"merged", "name">>, <<"market", "name">>,
                 <<"merged", "market_title">> >>,
     rules |-> << <<"merged", "description">>, <<"market", "description">>,
                  <<"merged", "rules">>, <<"market", "rules">>,
                  <<"merged", "resolutionRules">>,
                  <<"market", "resolution_rules">>,
                  <<"merged", "subtitle">> >>,
     stamp |-> << <<"merged", "resolution_date">>, <<"merged", "endDate">>,
                  <<"merged", "end_date">>, <<"market", "endDate">>,
                  <<"market", "end_date">> >>]

\* {**market_data, **{k: v for k, v in event_data.items()
\*                    if k not in market_data}}, when event_data is given
\* and not empty.
Merged(m, e) ==
    [k \in DOMAIN m \cup DOMAIN e |-> IF k \in DOMAIN m THEN m[k] ELSE e[k]]

\* The values of a list of candidates.
KalshiGets(d, keys) == [i \in 1..Len(keys) |-> Get(d, keys[i])]
PolyGets(m, e, cands) ==
    [i \in 1..Len(cands) |->
        Get(IF cands[i][1] = "merged" THEN Merged(m, e) ELSE m, cands[i][2])]

\* Parsing of a truthy resolution timestamp and strftime of its date and
\* time.  A string goes through datetime.fromisoformat (with 'Z' replaced
\* by '+00:00'), which keeps the wall clock of the string; a number goes
\* through datetime.fromtimestamp, which gives local time.  `exc` is what
\* the parse raises.
ParseStamp(v, tz) ==
    CASE v = "2024-12-31T23:59:59Z" ->
             [exc |-> "none", date |-> "2024-12-31", time |-> "23:59:59"]
      [] v \in Strings \ {"2024-12-31T23:59:59Z"} ->
             [exc |-> "ValueError", date |-> Null, time |-> Null]
      [] v = "#1735689599" ->
             IF tz = 0
             THEN [exc |-> "none", date |-> "2024-12-31", time |-> "23:59:59"]
             ELSE [exc |-> "none", date |-> "2025-01-01", time |-> "08:59:59"]
      [] v = "#1735689599000" ->
             [exc |-> "ValueError", date |-> Null, time |-> Null]
      [] v = "#1e20" ->
             [exc |-> "OverflowError", date |-> Null, time |-> Null]

\* Lines 407-422 (Kalshi), 479-493 (Polymarket): resolve_date and
\* resolve_time from the resolution timestamp.  On a caught parse error
\* Kalshi leaves both None, Polymarket keeps str(timestamp) as the date.
\* An exception that `except (ValueError, TypeError, OSError)` does not
\* catch leaves _normalize_market.
ResolveStamp(v, tz, keepRaw) ==
    IF ~TruthyValue(v)
    THEN [raised |-> FALSE, date |-> Null, time |-> Null]
    ELSE LET r == ParseStamp(v, tz)
         IN  IF r.exc = "none"
             THEN [raised |-> FALSE, date |-> r.date, time |-> r.time]
             ELSE IF r.exc \in {"ValueError", "TypeError", "OSError"}
             THEN [raised |-> FALSE,
                   date |-> IF keepRaw THEN Str(v) ELSE Null, time |-> Null]
             ELSE [raised |-> TRUE, date |-> Null, time |-> Null]

\* KalshiClient._normalize_market(market_data)
KalshiMarket(d, tz) ==
    LET G(key) == Get(d, key)
        Or2(a, b) == OrChain(<<a, b>>)
        c == KalshiCandidates
        stamp == ResolveStamp(OrChain(KalshiGets(d, c.stamp)), tz, FALSE)
    IN  [raised |-> stamp.raised,
         market_id |->
             Str(OrChain(KalshiGets(d, SubSeq(c.market_id, 1, 4))
                         \o <<Str(IF "event_id" \in DOMAIN d
                                  THEN d["event_id"] ELSE "")>>)),
         name |-> OrChain(KalshiGets(d, c.name) \o <<"">>),
         rules |-> OrChain(KalshiGets(d, c.rules) \o <<"">>),
         metadata |->
             [resolve_date |-> stamp.date,
              resolve_time |-> stamp.time,
              category |-> Or2(G("category"), G("series_ticker")),
              subcategory |-> G("subcategory"),
              tags |-> Or2(G("tags"), G("keywords")),
              description |-> Or2(G("description"), G("subtitle")),
              image_url |-> Or2(G("image_url"), G("image")),
              liquidity |-> G("liquidity"),
              volume |-> Or2(G("volume"), G("total_volume")),
              extra |-> [k \in {"status", "yes_bid", "yes_ask", "no_bid",
                                "no_ask", "last_price", "previous_price",
                                "event_ticker", "series_ticker"} |-> G(k)]],
         exchange |-> "kalshi",
         extra |-> d]

\* PolymarketClient._normalize_market(market_data, event_data)
PolyMarket(m, e, tz) ==
    LET merged == Merged(m, e)
        M(key) == Get(merged, key)
        R(key) == Get(m, key)
        c == PolyCandidates
        stamp == ResolveStamp(OrChain(PolyGets(m, e, c.stamp)), tz, TRUE)
    IN  [raised |-> stamp.raised,
         market_id |-> Str(OrChain(PolyGets(m, e, c.market_id) \o <<"">>)),
         name |-> OrChain(PolyGets(m, e, c.name) \o <<"">>),
         rules |-> OrChain(PolyGets(m, e, c.rules) \o <<"">>),
         metadata |->
             [resolve_date |-> stamp.date,
              resolve_time |-> stamp.time,
              category |-> OrChain(<<M("category"), M("groupItemTitle"),
                                     M("group_item_title"), R("category")>>),
              subcategory |-> OrChain(<<M("subcategory"), R("subcategory")>>),
              tags |-> OrChain(<<M("tags"), R("tags")>>),
              description |-> OrChain(<<M("description"), R("description"),
                                        M("subtitle")>>),
              image_url |-> OrChain(<<M("imageUrl"), M("image_url"),
                                      R("imageUrl"), R("image")>>),
              liquidity |-> OrChain(<<M("liquidity"), R("liquidity"),
                                      M("liquidity_usd")>>),
              volume |-> OrChain(<<M("volume"), R("volume"), M("volume_usd"),
                                   R("total_volume")>>),
              extra |->
                 [outcomes |-> OrChain(<<M("outcomes"), R("outcomes")>>),
                  active |-> OrChain(<<M("active"), R("active")>>),
                  closed |-> OrChain(<<M("closed"), R("closed")>>),
                  new |-> OrChain(<<M("new"), R("new")>>),
                  end_date_iso |->
                      OrChain(<<M("end_date_iso"), R("end_date_iso")>>),
                  start_date_iso |->
                      OrChain(<<M("start_date_iso"), R("start_date_iso")>>),
                  clobTokenIds |->
                      OrChain(<<M("clobTokenIds"), R("clob_token_ids"),
                                R("clobTokenIds")>>),
                  conditionId |->
                      OrChain(<<M("conditionId"), M("condition_id"),
                                R("conditionId")>>),
                  token_id |-> OrChain(<<R("token_id"), M("token_id")>>)]],
         exchange |-> "polymarket",
         extra |-> Merged(m, merged)]

\* Payloads with at most n keys, drawn from `keys`; a timestamp key holds
\* None, a string or a number, any other key None or a string.
Dicts(keys, n) ==
    LET stampKeys == {"expected_expiration_time", "expiration_time",
                      "resolution_date", "endDate", "end_date"}
        ValuesOf(k) == IF k \in stampKeys
                       THEN {Null, "A", "2024-12-31T23:59:59Z"} \cup Numbers
                       ELSE {Null, "", "A", "B"}
    IN  UNION { {d \in [S -> Strings \cup Numbers \cup {Null}] :
                    \A k \in S : d[k] \in ValuesOf(k)} :
                S \in {T \in SUBSET keys : Cardinality(T) <= n} }

NormOps == {"k_normalize_market", "p_normalize_market"}

\* One call of _normalize_market: a Kalshi record, or a Polymarket market
\* with the event it came in (fetch_all_markets) or without one.
NormInit ==
    /\ \E o \in NormOps : CallIdle(o)
    /\ LimiterIdle
    /\ BookIdle
    /\ StoreIdle
    /\ DomeIdle
    /\ DefaultLimiter
    /\ current_delay = MinDelay
    /\ local_tz \in {0, 9}
    /\ market = <<>>
    /\ IF op = "k_normalize_market"
       THEN /\ market_data \in
                 Dicts({"ticker", "event_ticker", "market_id", "id",
                        "event_id", "title", "name", "event_title",
                        "question", "rules", "subtitle", "description",
                        "expected_expiration_time", "expiration_time",
                        "category", "series_ticker"}, MaxFields)
            /\ event_data = <<>>
       ELSE /\ market_data \in
                 Dicts({"slug", "condition_id", "conditionId", "token_id",
                        "id", "market_id", "question", "title", "name",
                        "market_title", "description", "rules",
                        "resolutionRules", "resolution_rules", "subtitle",
                        "resolution_date", "endDate", "end_date"}, MaxFields)
            /\ event_data \in
                 Dicts({"slug", "id", "title", "description", "endDate"},
                       MaxFields - Cardinality(DOMAIN market_data))

NormUnchanged ==
    UNCHANGED <<market_data, event_data, local_tz, limVars, bookVars,
                storeVars, domeVars, sharedVars, current_delay, callRest>>

Normalized(r) ==
    IF r.raised
    THEN /\ market' = <<>>
         /\ pc' = "raised"
    ELSE /\ market' = r
         /\ pc' = "normalized"

KNormalizeMarket ==
    /\ op = "k_normalize_market"
    /\ pc = "none"
    /\ Normalized(KalshiMarket(market_data, local_tz))
    /\ NormUnchanged

PNormalizeMarket ==
    /\ op = "p_normalize_market"
    /\ pc = "none"
    /\ Normalized(PolyMarket(market_data, event_data, local_tz))
    /\ NormUnchanged

NormNext ==
    \/ KNormalizeMarket
    \/ PNormalizeMarket

SpecNormalize == NormInit /\ [][NormNext]_vars

(***************************************************************************)
(* DatabaseMarket and the markets table (SpecStore)                        *)
(***************************************************************************)
\* Fields of DatabaseMarket, which are the columns of the markets table.
Columns == {"market_id", "exchange", "name", "rules", "resolve_date",
            "resolve_time", "category", "subcategory", "tags",
            "description", "image_url", "liquidity", "volume", "extra",
            "id", "created_at", "updated_at"}

\* Columns the table fills in by itself.
StorageAssigned == {"id", "created_at", "updated_at"}

\* Mutant: id, created_at and updated_at stay in the record.
ToDictKeepsStorageFields(m, exclude_none) ==
    [c \in {c \in Columns : exclude_none => m[c] # Null} |-> m[c]]

\* Mutant: exclude_none is ignored, None values are sent.
ToDictWithNulls(m, exclude_none) ==
    [c \in Columns \ StorageAssigned |-> m[c]]

\* DatabaseMarket.to_dict: the fields without the storage-assigned ones and,
\* with exclude_none, without the fields that are None.
ToDict(m, exclude_none) ==
    LET data == [c \in Columns \ StorageAssigned |-> m[c]]
    IN  IF exclude_none
        THEN [c \in {c \in DOMAIN data : data[c] # Null} |-> data[c]]
        ELSE data

\* DatabaseMarket.from_exchange_market: fields are copied, resolve_date and
\* resolve_time are parsed from ISO strings (a string that does not parse
\* gives None), and Market.extra is not read.  The metadata's extra dict is
\* held as its text.
FromExchangeMarket(m) ==
    LET md == m.metadata
        date(v) == CASE v = "2024-12-31" -> "date(2024, 12, 31)"
                     [] v = "2025-01-01" -> "date(2025, 1, 1)"
                     [] OTHER -> Null
        time(v) == CASE v = "23:59:59" -> "time(23, 59, 59)"
                     [] v = "08:59:59" -> "time(8, 59, 59)"
                     [] OTHER -> Null
    IN  [c \in Columns |->
            CASE c = "market_id" -> m.market_id
              [] c = "exchange" -> m.exchange
              [] c = "name" -> m.name
              [] c = "rules" -> m.rules
              [] c = "resolve_date" ->
                     IF TruthyValue(md.resolve_date) THEN date(md.resolve_date)
                     ELSE Null
              [] c = "resolve_time" ->
                     IF TruthyValue(md.resolve_time) THEN time(md.resolve_time)
                     ELSE Null
              [] c = "extra" -> ToString(md.extra)
              [] c \in StorageAssigned -> Null
              [] OTHER -> md[c]]

\* The table after one record of an upsert on (market_id, exchange): a row
\* with the record's key takes the record's columns and keeps its others; a
\* record with a new key becomes a row, its missing columns at their
\* defaults.
UpsertRow(rows, r) ==
    LET hit == {i \in 1..Len(rows) :
                   /\ rows[i]["market_id"] = r["market_id"]
                   /\ rows[i]["exchange"] = r["exchange"]}
    IN  IF hit = {}
        THEN Append(rows, [c \in Columns |->
                              IF c \in DOMAIN r THEN r[c]
                              ELSE IF c \in StorageAssigned THEN "assigned"
                              ELSE Null])
        ELSE [i \in 1..Len(rows) |->
                 IF i \in hit
                 THEN [c \in Columns |->
                          IF c \in DOMAIN r THEN r[c] ELSE rows[i][c]]
                 ELSE rows[i]]

\* The table after the records of one request: the columns of the request
\* are those of any of its records, a record lacking one sends null for it.
RECURSIVE UpsertRows(_, _)
UpsertRows(rows, recs) ==
    LET cols == UNION {DOMAIN recs[i] : i \in 1..Len(recs)}
        padded == [c \in cols |-> IF c \in DOMAIN Head(recs)
                                  THEN Head(recs)[c] ELSE Null]
    IN  IF recs = <<>> THEN rows
        ELSE UpsertRows(UpsertRow(rows, padded),
                        [i \in 1..(Len(recs) - 1) |->
                            [c \in cols |-> IF c \in DOMAIN recs[i + 1]
                                            THEN recs[i + 1][c] ELSE Null]])

\* DatabaseMarkets a caller may hand over: some freshly built, some read
\* back from the table (with an id).
DbMarkets ==
    {[c \in Columns |->
         CASE c = "market_id" -> k
           [] c = "exchange" -> "kalshi"
           [] c = "name" -> n
           [] c = "rules" -> r
           [] c = "extra" -> x
           [] c = "id" -> i
           [] OTHER -> Null] :
     k \in {"A", "B"}, n \in {"n1", "n2"}, r \in {Null, "r1", "r2"},
     x \in {Null, "{}"}, i \in {Null, "assigned"}}

\* Markets the adapters produce from payloads of at most one key.
ExchangeMarkets ==
    {r \in {KalshiMarket(d, 0) :
               d \in Dicts({"ticker", "title", "rules", "expiration_time",
                            "category", "tags", "volume"}, 1)}
           \cup {PolyMarket(d, <<>>, 0) :
                    d \in Dicts({"slug", "question", "endDate"}, 1)} :
        ~r.raised}

StoreOps == {"upsert_market", "upsert_markets", "sync_markets_from_exchange"}

StoreInit ==
    /\ \E o \in StoreOps : CallIdle(o)
    /\ LimiterIdle
    /\ BookIdle
    /\ NormIdle
    /\ DomeIdle
    /\ DefaultLimiter
    /\ current_delay = MinDelay
    /\ db_markets = <<>>
    /\ sent = <<>>
    /\ store = <<>>
    /\ exchange_markets \in (IF op = "sync_markets_from_exchange"
                             THEN [1..2 -> ExchangeMarkets] ELSE {<<>>})

StoreUnchanged ==
    UNCHANGED <<op, limit, max_pages, page_size, retries, execVars, pageVars,
                hrlCalls, n429, streak429, onlyTenPages, current_delay,
                limVars, bookVars, normVars, domeVars, sharedVars>>

\* The upsert request with its outcome: the table takes the records and
\* answers with the rows, or the request fails and the call raises.
Upserted(recs, ok, next) ==
    /\ sent' = recs
    /\ sends' = sends + 1
    /\ last' = IF ok THEN "ok" ELSE "net"
    /\ store' = IF ok THEN UpsertRows(store, recs) ELSE store
    /\ result' = IF ok THEN "returned" ELSE "raw"
    /\ returned' = IF ok
                   THEN [i \in 1..Len(recs) |->
                            <<recs[i]["market_id"], recs[i]["exchange"]>>]
                   ELSE <<>>
    /\ pc' = next

\* upsert_market, called up to MaxSyncs times on one table.
UpsertMarket ==
    /\ op = "upsert_market"
    /\ pc = "none"
    /\ sends < MaxSyncs
    /\ \E m \in DbMarkets, ok \in BOOLEAN :
          /\ db_markets' = <<m>>
          /\ Upserted(<<ToDict(m, TRUE)>>, ok, "none")
    /\ UNCHANGED exchange_markets
    /\ StoreUnchanged

\* upsert_markets: an empty list returns [] without a request; a request
\* naming one key twice is refused by the table.
UpsertMarkets ==
    /\ \/ /\ op = "upsert_markets"
          /\ pc = "none"
          /\ db_markets' \in SeqsUpTo(DbMarkets, MaxBatch)
       \/ /\ op = "sync_markets_from_exchange"
          /\ pc = "converted"
          /\ db_markets' = db_markets
    /\ LET recs == [i \in 1..Len(db_markets') |->
                       ToDict(db_markets'[i], TRUE)]
           distinct == \A i, j \in 1..Len(recs) :
                          (/\ recs[i]["market_id"] = recs[j]["market_id"]
                           /\ recs[i]["exchange"] = recs[j]["exchange"])
                          => i = j
       IN  IF recs = <<>>
           THEN /\ result' = "returned"
                /\ returned' = <<>>
                /\ pc' = "done"
                /\ UNCHANGED <<sent, sends, last, store>>
           ELSE \E ok \in {b \in BOOLEAN : b => distinct} :
                   Upserted(recs, ok, "done")
    /\ UNCHANGED exchange_markets
    /\ StoreUnchanged

\* sync_markets_from_exchange: every Market is converted, then the list is
\* upserted.
ConvertMarkets ==
    /\ op = "sync_markets_from_exchange"
    /\ pc = "none"
    /\ db_markets' = [i \in 1..Len(exchange_markets) |->
                         FromExchangeMarket(exchange_markets[i])]
    /\ pc' = "converted"
    /\ UNCHANGED <<exchange_markets, sent, store, result, returned, sends,
                   last>>
    /\ StoreUnchanged

StoreNext ==
    \/ UpsertMarket
    \/ UpsertMarkets
    \/ ConvertMarkets

SpecStore == StoreInit /\ [][StoreNext]_vars

(***************************************************************************)
(* DomeAPIClient._make_request (SpecDome)                                  *)
(***************************************************************************)
\* Mutant: raise_for_status is not called.
OutcomeWithoutRaiseForStatus(failure, status, text, wraps) ==
    IF failure # "none"
    THEN [result |-> "typed", error |-> <<"Request failed", failure>>,
          returned |-> <<>>]
    ELSE IF text = "{\"data\": \"test\"}"
    THEN [result |-> "returned", error |-> <<>>,
          returned |-> <<[data |-> "test"]>>]
    ELSE IF wraps
    THEN [result |-> "typed", error |-> <<"Request failed", "JSONDecodeError">>,
          returned |-> <<>>]
    ELSE [result |-> "raw", error |-> <<"JSONDecodeError">>,
          returned |-> <<>>]

\* How _make_request ends once session.request() has raised `failure` (a
\* requests exception) or answered (status, text): raise_for_status raises
\* for 4xx and 5xx, response.json() decodes the body.  A body that is not
\* JSON raises a JSONDecodeError, which is a RequestException in recent
\* requests releases (wraps) and a plain ValueError in older ones.
Outcome(failure, status, text, wraps) ==
    IF failure # "none"
    THEN [result |-> "typed", error |-> <<"Request failed", failure>>,
          returned |-> <<>>]
    ELSE IF status >= 400 /\ status < 600
    THEN [result |-> "typed", error |-> <<"HTTP", status, text>>,
          returned |-> <<>>]
    ELSE IF text = "{\"data\": \"test\"}"
    THEN [result |-> "returned", error |-> <<>>,
          returned |-> <<[data |-> "test"]>>]
    ELSE IF wraps
    THEN [result |-> "typed", error |-> <<"Request failed", "JSONDecodeError">>,
          returned |-> <<>>]
    ELSE [result |-> "raw", error |-> <<"JSONDecodeError">>,
          returned |-> <<>>]

DomeInit ==
    /\ CallIdle("dome_make_request")
    /\ LimiterIdle
    /\ BookIdle
    /\ NormIdle
    /\ StoreIdle
    /\ DomeIdle
    /\ DefaultLimiter
    /\ current_delay = MinDelay

\* One call of _make_request on a client that made `reqs` calls before:
\* one session.request(), which raises or answers.
MakeRequest ==
    /\ op = "dome_make_request"
    /\ reqs < MaxDomeCalls
    /\ \E method \in {"GET", "POST"},
          endpoint \in {"/polymarket/markets", "/kalshi/markets",
                        "/test/endpoint"},
          failure \in {"none", "ConnectionError", "Timeout"},
          status \in {200, 204, 404, 429, 500},
          text \in {"{\"data\": \"test\"}", "Not Found", ""},
          wraps \in BOOLEAN :
          LET o == Outcome(failure, status, text, wraps)
          IN  /\ failure # "none" => status = 200 /\ text = ""
              /\ request' = [method |-> method,
                             url |-> <<"http://api.domeapi.io", endpoint>>]
              /\ reqs' = reqs + 1
              /\ sends' = sends + 1
              /\ last' = IF failure # "none" THEN "net" ELSE "ok"
              /\ errStatus' = IF failure # "none" THEN 0 ELSE status
              /\ body' = IF failure # "none" THEN <<>> ELSE <<text>>
              /\ result' = o.result
              /\ error' = o.error
              /\ returned' = o.returned
    /\ UNCHANGED <<op, limit, max_pages, page_size, retries, pc, attempt,
                   execResult, all_markets, page_num, total_fetched,
                   current_offset, current_cursor, page_limit, contrib,
                   served, next_cursor, cbCalls, cbArgs, hrlCalls, n429,
                   streak429, onlyTenPages, current_delay, limVars, bookVars,
                   normVars, storeVars, sharedVars>>

DomeNext == MakeRequest

SpecDome == DomeInit /\ [][DomeNext]_vars

(***************************************************************************)
(* RateLimiter: configurations and concurrent calls (SpecShared)           *)
(*                                                                         *)
(* Threads call the four methods of one limiter in any order.  A call      *)
(* enters `with self.lock:` and reads what it needs, and leaves it with    *)
(* its write done.                                                         *)
(***************************************************************************)
LimiterCalls == {"wait_if_needed", "record_request",
                 "handle_rate_limit_error", "reset_delay"}

\* RateLimiter(min_delay, max_delay, backoff_factor): nothing is validated.
\* The adapters pass rate_limit_delay as min_delay (0.1 s by default, here
\* also 120 s) and leave the rest; a limiter built directly may also have
\* another ceiling (0.4 s) or factor.
SharedInit ==
    /\ CallIdle("limiter_shared")
    /\ BookIdle
    /\ NormIdle
    /\ StoreIdle
    /\ DomeIdle
    /\ nthreads \in 1..MaxThreads
    /\ lock = 0
    /\ tpc = [t \in 1..nthreads |-> [stage |-> "idle", call |-> "none"]]
    /\ time_since_last = MaxDelay
    /\ sinceReturn = MaxDelay
    /\ sinceSend = MaxDelay
    /\ fresh = TRUE
    /\ backoffs = 0
    /\ successes = 0
    /\ min_delay \in {MinDelay, 2 * MaxDelay}
    /\ max_delay \in {MaxDelay, 4 * MinDelay}
    /\ backoff_factor \in {1, BackoffFactor}
    /\ current_delay = min_delay
    /\ read_delay = [t \in 1..nthreads |-> NONE]
    /\ calls = <<>>

\* Thread t calls a method, takes the lock and reads current_delay
\* (wait_if_needed sleeps here, holding the lock).
SharedEnter(t) ==
    /\ tpc[t].stage = "idle"
    /\ Len(calls) + Cardinality({u \in Threads : tpc[u].stage = "in"})
          < MaxCalls
    /\ LockFree(lock)
    /\ lock' = t
    /\ \E c \in LimiterCalls :
          /\ tpc' = [tpc EXCEPT ![t] = [stage |-> "in", call |-> c]]
          /\ IF c = "wait_if_needed"
             THEN Pass(SleepTime(time_since_last, current_delay))
             ELSE UNCHANGED <<time_since_last, sinceReturn, sinceSend>>
    /\ read_delay' = [read_delay EXCEPT ![t] = current_delay]
    /\ UNCHANGED <<current_delay, calls, hrlCalls, min_delay, max_delay,
                   backoff_factor, nthreads, fresh, backoffs, successes,
                   bookVars, normVars, storeVars, domeVars, callRest, pc>>

\* Thread t writes and leaves the lock.
SharedExit(t) ==
    /\ tpc[t].stage = "in"
    /\ current_delay' =
          CASE tpc[t].call = "handle_rate_limit_error" ->
                  HandleRateLimitError(read_delay[t])
            [] tpc[t].call = "reset_delay" -> ResetDelay(read_delay[t])
            [] OTHER -> current_delay
    /\ time_since_last' =
          IF tpc[t].call \in {"wait_if_needed", "record_request"}
          THEN 0 ELSE time_since_last
    /\ sinceReturn' = IF tpc[t].call = "wait_if_needed" THEN 0 ELSE sinceReturn
    /\ calls' = Append(calls, tpc[t].call)
    /\ lock' = 0
    /\ tpc' = [tpc EXCEPT ![t] = [stage |-> "idle", call |-> "none"]]
    /\ read_delay' = [read_delay EXCEPT ![t] = NONE]
    /\ UNCHANGED <<sinceSend, hrlCalls, min_delay, max_delay, backoff_factor,
                   nthreads, fresh, backoffs, successes, bookVars, normVars,
                   storeVars, domeVars, callRest, pc>>

SharedNext ==
    \/ \E t \in Threads : SharedEnter(t)
    \/ \E t \in Threads : SharedExit(t)

SpecShared == SharedInit /\ [][SharedNext]_vars

(***************************************************************************)
(* Properties                                                              *)
(***************************************************************************)
ExecutorOps == {"p_request", "p_fetch_all", "p_orderbook", "p_details"}
RetPcs == {"ret", "ret2"}

\* A page request of fetch_all_markets fails for good in this step:
\* Kalshi's get_markets raises (not a 429); the Polymarket executor raised.
KPageFails ==
    /\ op = "k_fetch_all"
    /\ pc = "loop"
    /\ reqs' = reqs + 1
    /\ last' \in {"serr", "net"}

PPageFails ==
    /\ op = "p_fetch_all"
    /\ pc = "ret"
    /\ execResult \in {"error", "raw"}
    /\ pc' = "done"

\* C1: partial-failure policy, both adapters.  When a page request fails
\* non-recoverably after an earlier page contributed records, the call
\* returns exactly the records accumulated so far; when the failing page is
\* the first one, the call raises the typed error.  (One of the two cases
\* always applies.)
PartialFailurePolicy ==
    [][ (KPageFails \/ PPageFails) =>
          /\ contrib >= 1 =>
                (result' = "returned" /\ returned' = all_markets
                                      /\ Len(all_markets) >= 1)
          /\ page_num = 0 => result' = "typed"
          /\ contrib >= 1 \/ page_num = 0 ]_vars

PartialFailureReturned ==
    /\ op = "k_fetch_all"
    /\ pc = "done"
    /\ last = "serr"
    /\ contrib = 2
    /\ result = "returned"
    /\ Len(returned) = 2 * ScenarioPage

\* C2 (as claimed): KalshiClient.fetch_all_markets does not retry a page
\* indefinitely on 429: once a page has been answered with 429 as often as
\* the executor's retry budget allows, the call has ended.
KalshiRetryBounded ==
    (op = "k_fetch_all" /\ streak429 >= DefaultRetries) => pc = "done"

\* C3: one executor call sends at most `retries` HTTP requests, each loop
\* iteration sends exactly one, and for answers that are a success, a 429,
\* another error status or a network failure the call ends with the body
\* or with PolymarketAPIError.
ExecutorBounded ==
    op \in ExecutorOps =>
        /\ sends <= retries
        /\ attempt <= retries
        /\ pc \in ExecPcs => sends = attempt
        /\ (pc \in RetPcs /\ last # "badjson") => execResult \in {"body", "error"}
        /\ (pc \in RetPcs /\ execResult = "body") => last = "ok"

ExecutorUsedAllAttempts ==
    /\ op = "p_request"
    /\ pc = "ret"
    /\ retries = DefaultRetries
    /\ sends = retries
    /\ last = "net"
    /\ execResult = "error"

\* C4: in the Polymarket executor every 429 answer causes exactly one
\* handle_rate_limit_error(); while attempts remain it is followed by a
\* retry, never by an error; PolymarketAPIError with status 429 is raised
\* exactly when the 429 answers the last permitted attempt.
RateLimitRetried ==
    op \in ExecutorOps =>
        /\ hrlCalls = n429
        /\ (execResult = "error" /\ errStatus = 429) =>
              (last = "s429" /\ sends = retries)
        /\ (last = "s429" /\ sends < retries) =>
              (pc \in ExecPcs /\ execResult = "none")
        /\ (last = "s429" /\ sends = retries) =>
              (execResult = "error" /\ errStatus = 429)

RateLimitExhausted ==
    /\ op = "p_request"
    /\ pc = "ret"
    /\ retries = DefaultRetries
    /\ n429 = DefaultRetries
    /\ hrlCalls = DefaultRetries
    /\ execResult = "error"
    /\ errStatus = 429

\* C5: in the Polymarket executor a non-429 error status is not retried:
\* the step that receives it ends the executor call with
\* PolymarketAPIError carrying that status, and leaves the limiter's
\* current_delay as it was (no handle_rate_limit_error, no reset_delay);
\* when it answers the first attempt, exactly one request was sent.
HttpErrorNotRetried ==
    [][ (op \in ExecutorOps /\ pc \in ExecPcs /\ last' = "serr") =>
          /\ pc' \in RetPcs
          /\ execResult' = "error"
          /\ errStatus' \in HttpErrorStatuses
          /\ current_delay' = current_delay
          /\ hrlCalls' = hrlCalls
          /\ sends' = sends + 1
          /\ attempt = 0 => sends' = 1 ]_vars

HttpErrorRaisedAtOnce ==
    /\ op = "p_request"
    /\ pc = "ret"
    /\ retries = DefaultRetries
    /\ last = "serr"
    /\ sends = 1
    /\ errStatus = 500
    /\ current_delay = MaxDelay

\* C6 (as claimed): whatever escapes fetch_all_markets, fetch_orderbook or
\* fetch_market_details of an adapter is that exchange's typed error.
OnlyTypedErrorsEscape ==
    (op \in FetchAllOps \cup SingleOps /\ pc = "done") =>
        result \in {"returned", "typed"}

\* C7: PolymarketClient.fetch_all_markets with limit L >= 1 never
\* accumulates or returns more than L markets.
PolymarketLimitHonoured ==
    (op = "p_fetch_all" /\ Truthy(limit)) =>
        /\ Len(all_markets) <= limit
        /\ Len(returned) <= limit

PolymarketLimitCutsPage ==
    /\ op = "p_fetch_all"
    /\ limit = 2
    /\ result = "returned"
    /\ body = <<"multi2", "multi2">>
    /\ page_limit = 2
    /\ Len(returned) = 2

\* C8 (as claimed): KalshiClient.fetch_all_markets with limit L >= 1 never
\* returns more than L markets.
KalshiLimitHonoured ==
    (op = "k_fetch_all" /\ Truthy(limit) /\ result = "returned") =>
        Len(returned) <= limit

\* C9 (as claimed): with limit = 15, the other arguments at their
\* defaults, and an upstream that answers every request with a page of 10
\* records, fetch_all_markets returns exactly 15 markets (either adapter).
LimitScenarioExact ==
    ( /\ op \in FetchAllOps
      /\ pc = "done"
      /\ limit = ScenarioLimit
      /\ max_pages = NONE
      /\ page_size = (IF op = "p_fetch_all" THEN DefaultPageSize ELSE NONE)
      /\ onlyTenPages ) =>
        (result = "returned" /\ Len(returned) = ScenarioLimit)

\* C10: with max_pages = M >= 1, no page request is issued once M pages
\* have been fetched, and records of at most M pages are accumulated.
MaxPagesHonoured ==
    [][ (op \in FetchAllOps /\ Truthy(max_pages)) =>
          /\ reqs' > reqs => page_num < max_pages
          /\ contrib' <= max_pages
          /\ page_num' <= max_pages ]_vars

MaxPagesReachedWithMoreOffered ==
    /\ op = "k_fetch_all"
    /\ max_pages = 2
    /\ limit = NONE
    /\ pc = "done"
    /\ result = "returned"
    /\ page_num = 2
    /\ contrib = 2
    /\ Truthy(current_cursor)
    /\ last = "ok"

IsPrefix(s, t) == Len(s) <= Len(t) /\ SubSeq(t, 1, Len(s)) = s
Range(s) == {s[i] : i \in 1..Len(s)}
\* Every raw record received so far had a usable shape.
AllWellFormed == 0 \notin Range(served)

\* C11: cursor-based termination of KalshiClient.fetch_all_markets called
\* without limit and max_pages.  A further page request is issued only when
\* the previous page response carried a next cursor (which is the cursor
\* sent); after the first response without one the call has ended, and it
\* returned exactly the records of all pages received.
CursorRun == op = "k_fetch_all" /\ limit = NONE /\ max_pages = NONE

CursorTermination ==
    /\ []( (CursorRun /\ last = "ok" /\ ~Truthy(next_cursor) /\ AllWellFormed)
             => (pc = "done" /\ result = "returned" /\ returned = served) )
    /\ [][ (CursorRun /\ reqs' > reqs /\ page_num >= 1) =>
              (Truthy(next_cursor) /\ current_cursor = next_cursor) ]_vars

CursorStopsAfterSecondPage ==
    /\ CursorRun
    /\ pc = "done"
    /\ reqs = 2
    /\ page_num = 2
    /\ n429 = 0
    /\ Truthy(current_cursor)
    /\ ~Truthy(next_cursor)
    /\ returned = <<1, 2, 3, 4>>
    /\ served = returned

\* C12: the list fetch_all_markets accumulates and returns is the
\* concatenation, in request order, of the records of the pages received,
\* each page in raw response order: it is always a prefix of the stream of
\* raw records received; a step only appends to it or cuts a tail off; and
\* when every record was usable, what is returned is the whole stream, or
\* (Polymarket, with a limit) its first `limit` records.
OrderPreserved ==
    /\ []( op \in FetchAllOps =>
             /\ IsPrefix(all_markets, served)
             /\ IsPrefix(returned, served)
             /\ (result = "returned" /\ AllWellFormed) =>
                   \/ returned = served
                   \/ /\ op = "p_fetch_all"
                      /\ Truthy(limit)
                      /\ Len(returned) = limit )
    /\ [][ (op \in FetchAllOps) =>
              (IsPrefix(all_markets, all_markets')
                  \/ IsPrefix(all_markets', all_markets)) ]_vars

ThreePagesInOrder ==
    /\ op = "p_fetch_all"
    /\ result = "returned"
    /\ page_num = 3
    /\ returned = <<1, 2, 3, 4, 5>>

\* C13 (as claimed): a supplied progress_callback is invoked exactly once
\* for each page that contributed records and for no other page; the k-th
\* invocation receives (k, number of markets accumulated so far).
CallbackPerContributingPage ==
    op \in FetchAllOps =>
        /\ cbCalls = contrib
        /\ cbCalls > 0 => cbArgs[1] = cbCalls
        /\ (cbCalls > 0 /\ pc = "loop") => cbArgs[2] = Len(all_markets)

\* C14 (as claimed): no list returned by fetch_all_markets holds two
\* markets with the same market_id (the exchange is the adapter's own).
NoDuplicateMarkets ==
    (op \in FetchAllOps /\ result = "returned") =>
        \A i, j \in 1..Len(returned) : i # j => returned[i] # returned[j]

\* C15: on a freshly constructed RateLimiter, after n calls of
\* handle_rate_limit_error() in a row and no reset_delay(),
\* current_delay = min(min_delay * backoff_factor^n, max_delay).
BackoffIsExponential ==
    (op = "limiter_calls" /\ fresh) =>
        current_delay = Min(MinDelay * Pow(BackoffFactor, backoffs), MaxDelay)

BackoffReachedCeiling ==
    /\ op = "limiter_calls"
    /\ fresh
    /\ backoffs = HalvingsToFloor + 1
    /\ current_delay = MaxDelay

\* C16: the delay decays geometrically.  A reset_delay() call divides
\* current_delay by backoff_factor, or puts it on the floor when that would
\* go below it; after two or more backoffs one success does not restore
\* the floor; HalvingsToFloor successes in a row do, and once on the floor
\* further successes keep it there.
DelayDecaysGeometrically ==
    /\ []( op = "limiter_calls" =>
             /\ current_delay >= MinDelay
             /\ successes >= HalvingsToFloor => current_delay = MinDelay )
    /\ [][ (op = "limiter_calls" /\ successes' > 0) =>
              /\ \/ current_delay' * BackoffFactor = current_delay
                 \/ /\ current_delay' = MinDelay
                    /\ current_delay < MinDelay * BackoffFactor
              /\ backoffs >= 2 => current_delay' > MinDelay
              /\ current_delay = MinDelay => current_delay' = MinDelay ]_vars

SlowDecayFromCeiling ==
    /\ op = "limiter_calls"
    /\ successes = HalvingsToFloor - 1
    /\ current_delay > MinDelay
    /\ current_delay < MinDelay * BackoffFactor

\* C17: the read / sleep / update sequence of wait_if_needed() of one
\* thread never overlaps that of another, and a call never returns less
\* than current_delay after the previous call returned.
WaitReturns == \E t \in Threads : tpc[t] \in InWait /\ tpc'[t] \notin InWait

WaitIsExclusive ==
    /\ []( op = "limiter" =>
             /\ Cardinality({t \in Threads : tpc[t] \in InWait}) <= 1
             /\ \A t \in Threads : tpc[t] \in InWait => lock = t )
    /\ [][ (op = "limiter" /\ WaitReturns) =>
              sinceReturn >= current_delay ]_vars

TwoCallersContend ==
    /\ op = "limiter"
    /\ nthreads >= 2
    /\ lock = 1
    /\ tpc[1] = "in_back"
    /\ tpc[2] = "top"
    /\ current_delay > MinDelay
    /\ time_since_last = current_delay
    /\ sinceReturn = current_delay

\* C18: used by one caller at a time, an adapter never sends a request
\* sooner than current_delay (as it is at that send, hence at least
\* min_delay) after the previous send, retries after a 429 included; and a
\* wait_if_needed() has returned since the previous send.
SendStep == \E t \in Threads : tpc[t] = "send" /\ tpc'[t] = "resp"

MinimumSpacing ==
    [][ (op = "limiter" /\ nthreads = 1 /\ SendStep) =>
          /\ sinceSend >= current_delay
          /\ current_delay >= MinDelay
          /\ sinceReturn <= sinceSend ]_vars

RetrySentAfterBackoff ==
    /\ op = "limiter"
    /\ nthreads = 1
    /\ tpc[1] = "resp"
    /\ hrlCalls = MaxRateLimits
    /\ sinceSend = 0
    /\ current_delay = MinDelay * Pow(BackoffFactor, MaxRateLimits)

\* C19: in every OrderBook produced by _normalize_orderbook of either
\* adapter, whatever the order of the raw entries, bids are in
\* non-increasing and asks in non-decreasing order of price.
BookIsSorted ==
    (op \in BookOps /\ pc = "normalized") =>
        /\ \A i \in 1..(Len(bids) - 1) : bids[i].price >= bids[i + 1].price
        /\ \A i \in 1..(Len(asks) - 1) : asks[i].price <= asks[i + 1].price

UnsortedBookSorted ==
    /\ op = "p_normalize_orderbook"
    /\ pc = "normalized"
    /\ Len(orderbook_data.entries) = 3
    /\ \A i \in 1..3 : /\ orderbook_data.entries[i].side = "bids"
                       /\ orderbook_data.entries[i].price = i
    /\ bids[1].price = 3
    /\ bids[3].price = 1

\* C20: KalshiClient._normalize_orderbook on a dual-sided book: every 'no'
\* bid at price p with quantity q yields an ask at 1.0 - p with quantity q,
\* every 'no' ask a bid at 1.0 - p with quantity q, and yes bids / yes
\* asks are bids / asks at their own price.
HasEntry(list, x) == \E j \in 1..Len(list) : list[j] = x

ComplementaryInversion ==
    (op = "k_normalize_orderbook" /\ pc = "normalized" /\ orderbook_data.dual) =>
        /\ \A i \in 1..Len(orderbook_data.entries) :
              LET e == orderbook_data.entries[i]
                  inv == [price |-> PriceUnit - e.price,
                          quantity |-> e.quantity, metadata |-> e]
                  own == [price |-> e.price,
                          quantity |-> e.quantity, metadata |-> e]
              IN  /\ e.side = "no_bids" => HasEntry(asks, inv)
                  /\ e.side = "no_asks" => HasEntry(bids, inv)
                  /\ e.side = "yes_bids" => HasEntry(bids, own)
                  /\ e.side = "yes_asks" => HasEntry(asks, own)
        /\ Len(bids) + Len(asks) = Len(orderbook_data.entries)

NoBidBecameAsk ==
    /\ op = "k_normalize_orderbook"
    /\ pc = "normalized"
    /\ orderbook_data.dual
    /\ Len(orderbook_data.entries) = 2
    /\ orderbook_data.entries[1] =
          [side |-> "no_bids", price |-> 1, quantity |-> 2]
    /\ orderbook_data.entries[2] =
          [side |-> "yes_asks", price |-> 2, quantity |-> 1]
    /\ Len(asks) = 2
    /\ asks[2].price = PriceUnit - 1
    /\ asks[2].quantity = 2
    /\ bids = <<>>

\* The candidates of canonical field f in the call at hand, in declared
\* order, each as the payload it is looked up in and the key.
CandidateSlots(f) ==
    IF op = "k_normalize_market"
    THEN [i \in 1..Len(KalshiCandidates[f]) |->
             <<market_data, KalshiCandidates[f][i]>>]
    ELSE [i \in 1..Len(PolyCandidates[f]) |->
             <<IF PolyCandidates[f][i][1] = "merged"
               THEN Merged(market_data, event_data) ELSE market_data,
               PolyCandidates[f][i][2]>>]

\* The candidate is present in its payload and not empty.
NonEmptySlot(slot) ==
    /\ slot[2] \in DOMAIN slot[1]
    /\ slot[1][slot[2]] \notin {Null, ""}

\* C21: field priority resolution.  For market_id, name and rules, of
\* either adapter, the normalized value is the value of the first
\* candidate, in declared order, that is present and non-empty.
FieldPriority ==
    (op \in NormOps /\ pc = "normalized") =>
        \A f \in {"market_id", "name", "rules"} :
            LET slots == CandidateSlots(f)
            IN  \A i \in 1..Len(slots) :
                   ( /\ NonEmptySlot(slots[i])
                     /\ \A j \in 1..(i - 1) : ~NonEmptySlot(slots[j]) )
                   => market[f] = slots[i][1][slots[i][2]]

TickerBeatsEventTicker ==
    /\ op = "k_normalize_market"
    /\ pc = "normalized"
    /\ DOMAIN market_data = {"ticker", "event_ticker"}
    /\ market_data["ticker"] = "A"
    /\ market_data["event_ticker"] = "B"
    /\ market.market_id = "A"

\* C22 (as claimed): null tolerance.  _normalize_market of either adapter
\* never raises for a mapping payload; a payload without any field yields
\* empty strings and null metadata, and a resolution timestamp that does
\* not parse yields a null resolve_time and a resolve_date that is null
\* or, on Polymarket, the raw string.
NullTolerance ==
    op \in NormOps =>
        /\ pc # "raised"
        /\ (pc = "normalized" /\ DOMAIN market_data \cup DOMAIN event_data = {})
              => /\ market.market_id = ""
                 /\ market.name = ""
                 /\ market.rules = ""
                 /\ \A f \in {"resolve_date", "resolve_time", "category",
                              "subcategory", "tags", "description",
                              "image_url", "liquidity", "volume"} :
                       market.metadata[f] = Null
        /\ (pc = "normalized" /\ market.metadata.resolve_time = Null)
              => \/ market.metadata.resolve_date = Null
                 \/ op = "p_normalize_market"



\* Rows of the table with the key of DatabaseMarket m.
RowsOf(rows, m) ==
    {i \in 1..Len(rows) : /\ rows[i]["market_id"] = m["market_id"]
                          /\ rows[i]["exchange"] = m["exchange"]}

\* An upsert_market(db_markets'[1]) request that the table accepted.
UpsertMarketStep ==
    /\ op = "upsert_market"
    /\ sends' = sends + 1
    /\ last' = "ok"

\* C23 (as claimed): upserting B over a stored record with the same
\* (market_id, exchange) leaves one record for that key, and every field of
\* it carries B's value, also a field that B leaves null.
UpsertCarriesEveryLaterValue ==
    [][UpsertMarketStep =>
          LET B == db_markets'[1]
          IN  /\ Cardinality(RowsOf(store', B)) = 1
              /\ \A i \in RowsOf(store', B) :
                    \A c \in Columns \ StorageAssigned :
                       store'[i][c] = B[c]]_vars

\* C23 (amended): upserting B leaves one record for B's key; a field that is
\* not null in B carries B's value, and a field that is null in B keeps what
\* the record held before (null when the record is new).
UpsertMergesLaterValues ==
    [][UpsertMarketStep =>
          LET B == db_markets'[1]
          IN  /\ Cardinality(RowsOf(store', B)) = 1
              /\ Len(store') = Len(store)
                               + (IF RowsOf(store, B) = {} THEN 1 ELSE 0)
              /\ \A i \in RowsOf(store', B) :
                    \A c \in Columns \ StorageAssigned :
                       store'[i][c] =
                           IF B[c] # Null THEN B[c]
                           ELSE IF i \in RowsOf(store, B) THEN store[i][c]
                           ELSE Null]_vars

\* B, with null rules, was upserted over a record holding rules "r1": the
\* record has B's name and still the rules "r1".
LaterNullKeepsStoredValue ==
    /\ op = "upsert_market"
    /\ sends = 2
    /\ last = "ok"
    /\ Len(store) = 1
    /\ db_markets[1]["rules"] = Null
    /\ db_markets[1]["name"] = "n2"
    /\ store[1]["market_id"] = db_markets[1]["market_id"]
    /\ store[1]["name"] = "n2"
    /\ store[1]["rules"] = "r1"

\* C24: every record sent by upsert_market or upsert_markets is free of id,
\* created_at and updated_at, holds no null value, and holds market_id and
\* exchange.
SentRecordsAreClean ==
    op \in StoreOps =>
        \A i \in 1..Len(sent) :
           /\ DOMAIN sent[i] \cap StorageAssigned = {}
           /\ \A c \in DOMAIN sent[i] : sent[i][c] # Null
           /\ {"market_id", "exchange"} \subseteq DOMAIN sent[i]

\* A DatabaseMarket read back from the table (it has an id) and without
\* rules was upserted in a list: its record is market_id, exchange, name.
SentWithoutIdAndNulls ==
    /\ op = "upsert_markets"
    /\ Len(sent) = 2
    /\ db_markets[2]["id"] # Null
    /\ db_markets[2]["rules"] = Null
    /\ DOMAIN sent[2] = {"market_id", "exchange", "name"}

\* C25 (as claimed): the conversion of a Market to a DatabaseMarket loses
\* nothing: two Markets that differ in any field, metadata.extra and
\* Market.extra included, convert to different DatabaseMarkets.
ConversionIsLossless ==
    (op = "sync_markets_from_exchange" /\ pc # "none") =>
        \A i, j \in 1..Len(exchange_markets) :
           db_markets[i] = db_markets[j]
              => exchange_markets[i] = exchange_markets[j]

\* C26: a call of DomeAPIClient._make_request sends exactly one HTTP
\* request; a transport failure raises DomeAPIError with "Request failed" in
\* its message, an HTTP error status raises DomeAPIError, and a success
\* whose body decodes returns the decoded JSON.
DomeOneRequestTypedErrors ==
    [][(op = "dome_make_request" /\ reqs' = reqs + 1) =>
          /\ sends' = sends + 1
          /\ last' = "net" =>
                /\ result' = "typed"
                /\ error'[1] = "Request failed"
          /\ (last' = "ok" /\ errStatus' >= 400) =>
                /\ result' = "typed"
                /\ error' = <<"HTTP", errStatus', body'[1]>>
          /\ (last' = "ok" /\ errStatus' = 200
                /\ body' = <<"{\"data\": \"test\"}">>) =>
                /\ result' = "returned"
                /\ returned' = <<[data |-> "test"]>>]_vars

\* A 429 answer ended the second call as a DomeAPIError after one request
\* per call.
DomeRateLimitedNoRetry ==
    /\ op = "dome_make_request"
    /\ reqs = 2
    /\ sends = 2
    /\ errStatus = 429
    /\ result = "typed"
    /\ error = <<"HTTP", 429, "Not Found">>

\* C27: in KalshiClient.fetch_all_markets a 429 on a page leaves the cursor,
\* page_num, total_fetched and the accumulated markets as they were, so the
\* same page is asked for next; it records exactly one
\* handle_rate_limit_error() and fires no progress callback.
Kalshi429KeepsPagination ==
    [][(op = "k_fetch_all" /\ reqs' = reqs + 1 /\ last' = "s429") =>
          /\ UNCHANGED <<current_cursor, page_num, total_fetched,
                         all_markets, cbCalls, cbArgs>>
          /\ pc' = "loop"
          /\ hrlCalls' = hrlCalls + 1
          /\ current_delay' = HandleRateLimitError(current_delay)
          /\ KalshiPageLimit(limit', total_fetched', page_size') = page_limit'
      ]_vars

\* The second page, asked for with the first page's cursor, was answered
\* with 429: one page and its callback are counted, one backoff recorded.
Kalshi429OnSecondPage ==
    /\ op = "k_fetch_all"
    /\ pc = "loop"
    /\ last = "s429"
    /\ reqs = 2
    /\ page_num = 1
    /\ Truthy(current_cursor)
    /\ all_markets # <<>>
    /\ cbCalls = 1
    /\ hrlCalls = 1

\* A page of PolymarketClient.fetch_all_markets(limit=None, max_pages=None)
\* was received and yielded at least one normalized record.
PolyUnboundedPageYielded ==
    /\ op = "p_fetch_all"
    /\ limit = NONE
    /\ max_pages = NONE
    /\ pc = "ret"
    /\ execResult = "body"
    /\ contrib' = contrib + 1

\* C28 (as claimed): without limit and max_pages, after any page that
\* yielded at least one record PolymarketClient.fetch_all_markets requests
\* the next page.
PolyStopsOnlyOnEmptyPage ==
    [][PolyUnboundedPageYielded => pc' = "loop"]_vars

\* C28 (amended): without limit and max_pages, after a page that yielded at
\* least page_size records the next page is requested, and a page that
\* yielded fewer (one record or more) ends the fetch, which returns
\* everything accumulated.
PolyStopsOnShortPage ==
    [][PolyUnboundedPageYielded =>
          IF Len(all_markets') - Len(all_markets) >= page_size
          THEN /\ pc' = "loop"
               /\ current_offset' = current_offset + page_size
          ELSE /\ pc' = "done"
               /\ result' = "returned"
               /\ returned' = all_markets']_vars

\* The first page held two records for page_size 2, so a second page was
\* requested; it held one record and the fetch returned the three.
PolyShortSecondPageEnds ==
    /\ op = "p_fetch_all"
    /\ limit = NONE
    /\ max_pages = NONE
    /\ page_size = 2
    /\ pc = "done"
    /\ result = "returned"
    /\ reqs = 2
    /\ page_num = 2
    /\ Len(returned) = 3

\* C29 (as claimed): fetch_all_markets(limit=0) and (max_pages=0), of either
\* adapter, issue no request and return an empty list.
ZeroBoundHonoured ==
    (op \in FetchAllOps /\ (limit = 0 \/ max_pages = 0)) =>
        /\ reqs = 0
        /\ pc = "done" => (result = "returned" /\ returned = <<>>)

\* fetch_all_markets returned an empty list.
ReturnedEmpty ==
    /\ op \in FetchAllOps
    /\ pc = "done"
    /\ result = "returned"
    /\ returned = <<>>

\* A page request of fetch_all_markets ends the call by failing (Kalshi:
\* get_markets raised, not 429; Polymarket: the executor raised) while
\* nothing is accumulated.
FailsWithoutProgress ==
    /\ op \in FetchAllOps
    /\ all_markets = <<>>
    /\ pc # "done"
    /\ pc' = "done"
    /\ \/ op = "k_fetch_all" /\ last' \in {"serr", "net"}
       \/ op = "p_fetch_all" /\ execResult \in {"error", "raw"}

\* C30: fetch_all_markets of either adapter returns an empty list only when
\* the request of its first page succeeded and the page yielded no record,
\* and a request that fails while nothing is accumulated makes the call
\* raise.
NoErrorMaskedAsEmpty ==
    /\ [](ReturnedEmpty =>
             /\ reqs >= 1
             /\ last = "ok"
             /\ op = "p_fetch_all" => execResult = "body"
             /\ contrib = 0
             /\ page_num = (IF op = "k_fetch_all" THEN 1 ELSE 0))
    /\ [][FailsWithoutProgress => result' \in {"typed", "raw"}]_vars

\* Kalshi's first page was refused with 429, then answered without any
\* record: the call returned an empty list.
EmptyFirstPageReturnsEmpty ==
    /\ ReturnedEmpty
    /\ op = "k_fetch_all"
    /\ reqs = 2
    /\ n429 = 1
    /\ last = "ok"
    /\ served = <<>>

\* C31 (as claimed): in fetch_all_markets without a limit, whose requests
\* all succeeded, a record that cannot be normalized does not abort the
\* fetch: the call returns, and every well-formed record received is among
\* the markets returned.
BadRecordDoesNotAbort ==
    (/\ op \in FetchAllOps
     /\ limit = NONE
     /\ pc = "done"
     /\ last = "ok"
     /\ op = "p_fetch_all" => execResult = "body") =>
        /\ result = "returned"
        /\ \A i \in 1..Len(served) :
              served[i] # 0 =>
                 \E j \in 1..Len(returned) : returned[j] = served[i]

\* C32 (as claimed): when KalshiClient.fetch_market_details had its first
\* request answered with 429 and the retry failed, the caller observes
\* KalshiAPIError.
DetailsRetryFailsTyped ==
    (/\ op = "k_details"
     /\ pc = "done"
     /\ sends = 2
     /\ last # "ok") => result = "typed"

\* C33 (as claimed): no call of KalshiClient.fetch_orderbook issues more
\* than two HTTP requests.
OrderbookAtMostTwoRequests ==
    op = "k_orderbook" => sends <= 2

\* C34 (as claimed): whatever the configuration and the calls made by the
\* threads, min_delay <= current_delay <= max_delay.
DelayWithinConfiguredBounds ==
    (op = "limiter_shared" /\ backoff_factor >= 1) =>
        /\ min_delay <= current_delay
        /\ current_delay <= max_delay

\* current_delay after the calls of `order`, made one after another on a
\* limiter that holds d.
RECURSIVE AfterCalls(_, _)
AfterCalls(order, d) ==
    IF order = <<>> THEN d
    ELSE AfterCalls(Tail(order),
                    CASE Head(order) = "handle_rate_limit_error" ->
                            HandleRateLimitError(d)
                      [] Head(order) = "reset_delay" -> ResetDelay(d)
                      [] OTHER -> d)

\* C35: when no thread is inside a call, current_delay is what the calls
\* made so far give when applied one after another, in some order, to the
\* initial delay: no update of handle_rate_limit_error() or reset_delay()
\* is lost, whatever the interleaving with the other calls.
DelayUpdatesAreAtomic ==
    (op = "limiter_shared" /\ \A t \in Threads : tpc[t].stage = "idle") =>
        \E p \in {q \in [1..Len(calls) -> 1..Len(calls)] :
                     \A i, j \in 1..Len(calls) : q[i] = q[j] => i = j} :
           current_delay =
               AfterCalls([i \in 1..Len(calls) |-> calls[p[i]]], min_delay)

\* Two threads backed off and one reset the delay: three calls completed
\* at twice the floor.
ThreeCallsInterleaved ==
    /\ op = "limiter_shared"
    /\ nthreads = 2
    /\ \A t \in Threads : tpc[t].stage = "idle"
    /\ calls = <<"handle_rate_limit_error", "handle_rate_limit_error",
                 "reset_delay">>
    /\ min_delay = MinDelay
    /\ backoff_factor = 2
    /\ current_delay = 2 * MinDelay

\* C36 (as claimed): in every normalized book the bids are strictly
\* descending and the asks strictly ascending in price.
StrictPriceOrder ==
    (op \in BookOps /\ pc = "normalized") =>
        /\ \A i \in 1..(Len(bids) - 1) : bids[i].price > bids[i + 1].price
        /\ \A i \in 1..(Len(asks) - 1) : asks[i].price < asks[i + 1].price

\* The raw book with its missing or null place holding an empty list.
WithEmptySide(book) ==
    [dual |-> book.dual \/ DOMAIN book.odd \subseteq {"yes", "no"},
     entries |-> book.entries,
     odd |-> <<>>]

\* C37 (as claimed): a book with a missing or null outcome side or array
\* normalizes without error, to what the same book with an empty list in
\* that place normalizes to.
MissingSideIsEmptySide ==
    (op \in BookOps /\ pc # "none" /\ orderbook_data.odd # <<>>) =>
        LET clean == IF op = "k_normalize_orderbook"
                     THEN KalshiOrderBook(WithEmptySide(orderbook_data))
                     ELSE PolyOrderBook(WithEmptySide(orderbook_data))
        IN  /\ pc = "normalized"
            /\ bids = clean.bids
            /\ asks = clean.asks

\* The quantities of a list of entries that are q.
CountQuantity(list, q) ==
    Cardinality({i \in 1..Len(list) : list[i].quantity = q})

\* C38 (as claimed): normalization neither drops nor duplicates entries:
\* the bids are as many as the raw yes bids, no asks and bids, the asks as
\* many as the raw yes asks, no bids and asks, and every quantity occurs as
\* often in the result as in the raw book.
NoEntryDroppedOrDuplicated ==
    (op \in BookOps /\ pc = "normalized") =>
        LET raw == orderbook_data.entries
            toBids == SelectSeq(raw, LAMBDA e :
                          e.side \in {"yes_bids", "no_asks", "bids"})
            toAsks == SelectSeq(raw, LAMBDA e :
                          e.side \in {"yes_asks", "no_bids", "asks"})
        IN  /\ Len(bids) = Len(toBids)
            /\ Len(asks) = Len(toAsks)
            /\ \A q \in Quantities :
                  /\ CountQuantity(bids, q) = CountQuantity(toBids, q)
                  /\ CountQuantity(asks, q) = CountQuantity(toAsks, q)


\* C39 (as claimed): when market_data and event_data of a Polymarket
\* record both define a key, the event's value is the one the canonical
\* field is extracted from: a slug the event gives is the market id, a
\* description the event gives is the rules text.
EventValueTakesPrecedence ==
    (op = "p_normalize_market" /\ pc = "normalized") =>
        /\ ( /\ "slug" \in DOMAIN market_data \cap DOMAIN event_data
             /\ TruthyValue(event_data["slug"]) )
           => market.market_id = event_data["slug"]
        /\ ( /\ "description" \in DOMAIN market_data \cap DOMAIN event_data
             /\ TruthyValue(event_data["description"]) )
           => market.rules = event_data["description"]

\* The payload with its epoch-seconds timestamp written as the ISO-8601
\* string of the same instant.
AsIsoString(d) ==
    [k \in DOMAIN d |->
        IF d[k] = "#1735689599" THEN "2024-12-31T23:59:59Z" ELSE d[k]]

\* C40 (as claimed): a record whose resolution timestamp is given in epoch
\* seconds gets the resolve_date and resolve_time of the same record with
\* the instant given as an ISO-8601 "Z" string, in both adapters and in
\* every local timezone.
EpochAndIsoAgree ==
    (op \in NormOps /\ pc = "normalized") =>
        LET iso == IF op = "k_normalize_market"
                   THEN KalshiMarket(AsIsoString(market_data), local_tz)
                   ELSE PolyMarket(AsIsoString(market_data),
                                   AsIsoString(event_data), local_tz)
        IN  /\ market.metadata.resolve_date = iso.metadata.resolve_date
            /\ market.metadata.resolve_time = iso.metadata.resolve_time

=============================================================================
